---- MODULE Spec2Model ----
(***************************************************************************)
(* xpost: one invocation of the root command (runRoot): target resolution, *)
(* poster construction, dispatch, and the providers' Post pipelines.       *)
(*                                                                         *)
(* Strings that the code trims, lower-cases, sorts or takes an extension   *)
(* of are sequences of one-character strings; all other texts are atoms.   *)
(***************************************************************************)
EXTENDS Integers, Sequences, FiniteSets, TLC

\* Longest --target list the model enumerates.
MaxTargets == 2

\* Largest check_after_secs a finalize response carries in the model.
MaxWait == 1

----------------------------------------------------------------------------
\* Strings (Go's strings and sort packages, as the code uses them)

UpperChars == <<"A","B","C","D","E","F","G","H","I","J","K","L","M",
                "N","O","P","Q","R","S","T","U","V","W","X","Y","Z">>

LowerChars == <<"a","b","c","d","e","f","g","h","i","j","k","l","m",
                "n","o","p","q","r","s","t","u","v","w","x","y","z">>

\* The characters the model's inputs use, in byte order.
ByteOrder == <<"\t", "\n", "\r", " ", ".", "/">> \o UpperChars \o <<"_">> \o LowerChars

Byte(c) == CHOOSE i \in 1..Len(ByteOrder) : ByteOrder[i] = c

IsSpace(c) == c \in {"\t", "\n", "\r", " "}

ToLowerChar(c) ==
  IF \E i \in 1..Len(UpperChars) : UpperChars[i] = c
  THEN LowerChars[CHOOSE i \in 1..Len(UpperChars) : UpperChars[i] = c]
  ELSE c

\* strings.ToLower
ToLower(s) == [i \in 1..Len(s) |-> ToLowerChar(s[i])]

RECURSIVE TrimLeft(_)
TrimLeft(s) == IF s # <<>> /\ IsSpace(Head(s)) THEN TrimLeft(Tail(s)) ELSE s

RECURSIVE TrimRight(_)
TrimRight(s) ==
  IF s # <<>> /\ IsSpace(s[Len(s)]) THEN TrimRight(SubSeq(s, 1, Len(s) - 1)) ELSE s

\* strings.TrimSpace
TrimSpace(s) == TrimRight(TrimLeft(s))

\* Go's < on strings: lexicographic by byte.
RECURSIVE StrLess(_, _)
StrLess(a, b) ==
  IF b = <<>> THEN FALSE
  ELSE IF a = <<>> THEN TRUE
  ELSE IF Head(a) # Head(b) THEN Byte(Head(a)) < Byte(Head(b))
  ELSE StrLess(Tail(a), Tail(b))

RECURSIVE InsertSorted(_, _)
InsertSorted(x, s) ==
  IF s = <<>> THEN <<x>>
  ELSE IF StrLess(x, Head(s)) THEN <<x>> \o s
  ELSE <<Head(s)>> \o InsertSorted(x, Tail(s))

\* sort.Strings
RECURSIVE SortStrings(_)
SortStrings(s) == IF s = <<>> THEN <<>> ELSE InsertSorted(Head(s), SortStrings(Tail(s)))

Range(s) == {s[i] : i \in 1..Len(s)}

SeqsUpTo(S, n) == UNION {[1..k -> S] : k \in 0..n}

----------------------------------------------------------------------------
\* Errors

Nil == [kind |-> "nil"]

\* errors.New / fmt.Errorf without %w
ErrorString(msg, arg) == [kind |-> "errorString", msg |-> msg, arg |-> arg]

\* fmt.Errorf("%s: %w", prefix, err)
Wrap(prefix, err) == [kind |-> "wrap", prefix |-> prefix, err |-> err]

\* errors.Join(errs...)
Join(errs) == [kind |-> "join", errs |-> errs]

MissingEnvError(provider, variables) ==
  [kind |-> "MissingEnvError", Provider |-> provider, Variables |-> variables]

ValidationError(provider, reason, path) ==
  [kind |-> "ValidationError", Provider |-> provider, Reason |-> reason, path |-> path]

\* ctx.Err() once the context is done
ContextCanceled == [kind |-> "context.Canceled"]

----------------------------------------------------------------------------
\* Target resolution (cmd/root.go)

twitter  == <<"t","w","i","t","t","e","r">>
mastodon == <<"m","a","s","t","o","d","o","n">>
bluesky  == <<"b","l","u","e","s","k","y">>
all      == <<"a","l","l">>

supportedTargets == {bluesky, mastodon, twitter}

\* Values a --target flag takes in the model.
RawTargets ==
  { twitter, mastodon, bluesky, all,
    <<" ","T","w","i","t","t","e","r">>,
    <<"f","o","o">>,
    <<" ">> }

\* Variant of sortedTargets that keeps the order of first appearance.
sortedTargets_Unsorted(targets) == targets

sortedTargets(targets) == SortStrings(targets)

\* The loop of normalizeTargets over values[i..], with its locals result and seen.
RECURSIVE normalizeLoop(_, _, _, _)
normalizeLoop(values, i, result, seen) ==
  IF i > Len(values)
  THEN IF Len(result) = 0
       THEN [targets |-> <<>>, err |-> ErrorString("no targets selected", <<>>)]
       ELSE [targets |-> sortedTargets(result), err |-> Nil]
  ELSE LET raw == TrimSpace(ToLower(values[i])) IN
       IF raw = <<>> THEN normalizeLoop(values, i + 1, result, seen)
       ELSE IF raw = all
            THEN [targets |-> sortedTargets(<<twitter, mastodon, bluesky>>), err |-> Nil]
       ELSE IF raw \notin supportedTargets
            THEN [targets |-> <<>>, err |-> ErrorString("unsupported target", raw)]
       ELSE IF raw \in seen THEN normalizeLoop(values, i + 1, result, seen)
       ELSE normalizeLoop(values, i + 1, Append(result, raw), seen \cup {raw})

normalizeTargets(values) ==
  IF Len(values) = 0
  THEN [targets |-> sortedTargets(<<twitter, mastodon, bluesky>>), err |-> Nil]
  ELSE normalizeLoop(values, 1, <<>>, {})

----------------------------------------------------------------------------
\* Provider configuration (os.Getenv values are sequences of characters)

envAPIKey         == "XPOST_TWITTER_CONSUMER_KEY"
envAPISecret      == "XPOST_TWITTER_CONSUMER_SECRET"
envAccessToken    == "XPOST_TWITTER_ACCESS_TOKEN"
envAccessSecret   == "XPOST_TWITTER_ACCESS_TOKEN_SECRET"
envServer         == "XPOST_MASTODON_SERVER"
envMastodonToken  == "XPOST_MASTODON_ACCESS_TOKEN"
envClientID       == "XPOST_MASTODON_CLIENT_ID"
envHandle         == "XPOST_BLUESKY_HANDLE"
envAppPassword    == "XPOST_BLUESKY_APP_PASSWORD"
envPDSURL         == "XPOST_BLUESKY_PDS_URL"

defaultBlueskyPDSURL ==
  <<"h","t","t","p","s",":","/","/","b","s","k","y",".","s","o","c","i","a","l">>

\* The settings each provider's constructor reads.
ReadVars(p) ==
  IF p = twitter THEN {envAPIKey, envAPISecret, envAccessToken, envAccessSecret}
  ELSE IF p = mastodon THEN {envServer, envMastodonToken, envClientID}
  ELSE {envHandle, envAppPassword, envPDSURL}

EnvVars == UNION {ReadVars(p) : p \in supportedTargets}

\* An unset variable, a blank one, a set one.
EnvValues == {<<>>, <<" ">>, <<"k">>}

MissingIf(blank, name) == IF blank THEN <<name>> ELSE <<>>

\* Variant of loadConfigFromEnv that does not trim the settings.
twitterLoadConfigFromEnv_NoTrim(e) ==
  LET cfg == [APIKey       |-> e[envAPIKey],
              APISecret    |-> e[envAPISecret],
              AccessToken  |-> e[envAccessToken],
              AccessSecret |-> e[envAccessSecret]]
      missing == MissingIf(cfg.APIKey = <<>>, envAPIKey)
                 \o MissingIf(cfg.APISecret = <<>>, envAPISecret)
                 \o MissingIf(cfg.AccessToken = <<>>, envAccessToken)
                 \o MissingIf(cfg.AccessSecret = <<>>, envAccessSecret)
  IN IF Len(missing) > 0
     THEN [ok |-> FALSE, err |-> MissingEnvError(twitter, missing)]
     ELSE [ok |-> TRUE, cfg |-> cfg, err |-> Nil]

\* twitter.loadConfigFromEnv (same in both twitter packages)
twitterLoadConfigFromEnv(e) ==
  LET cfg == [APIKey       |-> TrimSpace(e[envAPIKey]),
              APISecret    |-> TrimSpace(e[envAPISecret]),
              AccessToken  |-> TrimSpace(e[envAccessToken]),
              AccessSecret |-> TrimSpace(e[envAccessSecret])]
      missing == MissingIf(cfg.APIKey = <<>>, envAPIKey)
                 \o MissingIf(cfg.APISecret = <<>>, envAPISecret)
                 \o MissingIf(cfg.AccessToken = <<>>, envAccessToken)
                 \o MissingIf(cfg.AccessSecret = <<>>, envAccessSecret)
  IN IF Len(missing) > 0
     THEN [ok |-> FALSE, err |-> MissingEnvError(twitter, missing)]
     ELSE [ok |-> TRUE, cfg |-> cfg, err |-> Nil]

\* mastodon.loadConfigFromEnv
mastodonLoadConfigFromEnv(e) ==
  LET cfg == [Server      |-> TrimSpace(e[envServer]),
              AccessToken |-> TrimSpace(e[envMastodonToken]),
              ClientID    |-> TrimSpace(e[envClientID])]
      missing == MissingIf(cfg.Server = <<>>, envServer)
                 \o MissingIf(cfg.AccessToken = <<>>, envMastodonToken)
  IN IF Len(missing) > 0
     THEN [ok |-> FALSE, err |-> MissingEnvError(mastodon, missing)]
     ELSE [ok |-> TRUE, cfg |-> cfg, err |-> Nil]

\* bluesky.loadConfig
blueskyLoadConfig(e, base) ==
  LET pds0 == TrimSpace(e[envPDSURL])
      pds1 == IF pds0 = <<>> THEN TrimSpace(base) ELSE pds0
      pds2 == IF pds1 = <<>> THEN defaultBlueskyPDSURL ELSE pds1
      cfg == [Handle      |-> TrimSpace(e[envHandle]),
              AppPassword |-> TrimSpace(e[envAppPassword]),
              PDSURL      |-> pds2]
      missing == MissingIf(cfg.Handle = <<>>, envHandle)
                 \o MissingIf(cfg.AppPassword = <<>>, envAppPassword)
                 \o MissingIf(cfg.PDSURL = <<>>, envPDSURL)
  IN IF Len(missing) > 0
     THEN [ok |-> FALSE, err |-> MissingEnvError(bluesky, missing)]
     ELSE [ok |-> TRUE, cfg |-> cfg, err |-> Nil]

\* A step of a constructor or of a Post call as the history records it: the
\* provider, the operation, and whether it succeeded.
Event(p, op, ok) == [p |-> p, op |-> op, ok |-> ok]

\* The operations that send a request to a remote service.
NetworkOps == {"createSession", "initialize", "append", "finalize", "metadata", "upload", "create"}

\* The steps of the media pipeline; "create" is the create-post/status operation.
MediaOps == {"open", "readFile", "classify", "copy", "initialize", "append", "finalize",
             "processing", "wait", "metadata", "upload", "parse"}

\* What the client library or the remote service answers to a constructor.
NewOutcomes(p, legacy) ==
  IF p = bluesky THEN {"ok", "err"}
  ELSE IF p = twitter /\ ~legacy THEN {"ok", "err", "notReady"}
  ELSE {"ok"}

\* twitter.New: gotwi client (current) or oauth1 client (legacy); no network call.
twitterNew(e, legacy, outcome) ==
  LET c == twitterLoadConfigFromEnv(e) IN
  IF ~c.ok THEN [ok |-> FALSE, err |-> c.err, events |-> <<>>]
  ELSE IF ~legacy /\ outcome = "err"
       THEN [ok |-> FALSE, err |-> Wrap("create X client", ErrorString("gotwi", <<>>)), events |-> <<>>]
  ELSE IF ~legacy /\ outcome = "notReady"
       THEN [ok |-> FALSE, err |-> ErrorString("twitter client not ready", <<>>), events |-> <<>>]
  ELSE [ok |-> TRUE, err |-> Nil, events |-> <<>>]

\* mastodon.New: no network call.
mastodonNew(e) ==
  LET c == mastodonLoadConfigFromEnv(e) IN
  IF ~c.ok THEN [ok |-> FALSE, err |-> c.err, events |-> <<>>]
  ELSE [ok |-> TRUE, err |-> Nil, events |-> <<>>]

\* bluesky.New: logs in (ServerCreateSession) once the configuration is complete.
blueskyNew(e, base, outcome) ==
  LET c == blueskyLoadConfig(e, base) IN
  IF ~c.ok THEN [ok |-> FALSE, err |-> c.err, events |-> <<>>]
  ELSE IF outcome = "err"
       THEN [ok |-> FALSE, err |-> Wrap("login", ErrorString("xrpc", <<>>)),
             events |-> <<Event(bluesky, "createSession", FALSE)>>]
  ELSE [ok |-> TRUE, err |-> Nil, events |-> <<Event(bluesky, "createSession", TRUE)>>]

\* The constructors map of buildPosters.
constructors(target, e, legacy, outcome) ==
  IF target = bluesky THEN blueskyNew(e, defaultBlueskyPDSURL, outcome)
  ELSE IF target = mastodon THEN mastodonNew(e)
  ELSE twitterNew(e, legacy, outcome)

----------------------------------------------------------------------------
\* State

VARIABLES
  entry,            \* the function the caller enters: "runRoot" or "dispatch"
  messageFlag,      \* --message
  args,             \* the positional arguments
  stdin,            \* cmd.InOrStdin()
  targetsFlag,      \* --target values
  imagePath,        \* --image
  imageAlt,         \* --alt-text
  dryRun,           \* --dry-run
  legacy,           \* TRUE: the previous release (unnamed/part_000 with the oauth1
                    \* twitter package); FALSE: cmd/root.go with the gotwi package
  env,              \* the process environment
  pc,               \* position in runRoot
  message,          \* runRoot's message
  resolvedTargets,  \* runRoot's resolvedTargets
  req,              \* runRoot's xpost.Request
  posters,          \* buildPosters' posters, by Name()
  idx,              \* index of the range loop in buildPosters, then in dispatch
  errs,             \* the errs slice of buildPosters, then of dispatch
  out,              \* lines written to cmd.OutOrStdout()
  ret,              \* the error runRoot returned (Nil before it returns)
  ppc,              \* position inside the running Post call ("idle": none)
  upload,           \* locals of the running Post call
  timer,            \* seconds left on the processing timer
  ctxDone,          \* the caller's context is done
  fileOpen,         \* an image file handle is open
  constructed,      \* history: constructor calls and what they returned
  posted,           \* history: posters whose Post was called
  results,          \* history: what each Post call returned
  events,           \* history: constructor and Post steps performed, in order
  observed,         \* history: what the Post calls read, were answered and sent
  answers,          \* history: what was answered to each step of the Post calls
  twin              \* the run a second dispatch is compared with

vars == <<entry, messageFlag, args, stdin, targetsFlag, imagePath, imageAlt, dryRun,
          legacy, env, pc, message, resolvedTargets,
          req, posters, idx, errs, out, ret, ppc, upload, timer, ctxDone, fileOpen,
          constructed, posted, results, events, observed, answers, twin>>

inputs == <<entry, messageFlag, args, stdin, targetsFlag, imagePath, imageAlt, dryRun, legacy, env>>

history == <<constructed, posted, results, events, observed, answers>>

postVars == <<ppc, upload, timer, ctxDone, fileOpen>>

hello == <<"h","e","l","l","o">>

\* What cmd.InOrStdin() is: a terminal, a reader that is no *os.File, a file
\* whose Stat or whose read fails, or a pipe holding data.
Stdin(kind, data) == [kind |-> kind, data |-> data]

Terminal == Stdin("terminal", <<>>)

StdinValues ==
  {Terminal, Stdin("notFile", <<>>), Stdin("statErr", <<>>), Stdin("readErr", <<>>),
   Stdin("pipe", <<>>), Stdin("pipe", <<" ", "\n">>), Stdin("pipe", <<"h", "i", "\n">>)}

MessageFlags == {<<>>, <<" ">>, <<" ", "h", "i", " ">>}

ArgLists == {<<>>, <<<<>>>>, <<<<" ">>>>, <<<<"h">>, <<"i">>>>}

defaultAltText ==
  <<"I","m","a","g","e"," ","a","t","t","a","c","h","e","d"," ","v","i","a"," ","x","p","o","s","t">>

NoUpload == [mediaID |-> <<>>]

\* The text of a post: the message, then a separator and a link.
Text(msg, sep, link) == [message |-> msg, sep |-> sep, link |-> link]

NoText == Text("", <<>>, <<>>)

\* Nothing read, answered or sent yet: per provider the outcome of opening the
\* image file and the text sent; for the chunked upload the detected content
\* type, the media type and category resolveMediaType returned, the processing
\* state and delay finalize reported, and the seconds spent waiting on the timer.
NoObserved ==
  [file     |-> [p \in supportedTargets |-> "none"],
   detected |-> <<>>,
   mediaType |-> "",
   category |-> "",
   state    |-> "none",
   secs     |-> 0,
   waited   |-> 0,
   text     |-> [p \in supportedTargets |-> NoText]]

\* No run to compare with.
NoTwin == [p |-> <<>>, answers |-> <<>>, steps |-> <<>>, text |-> NoText, result |-> Nil]

\* Request.Link values.
Links == {<<>>, <<"u">>}

catPNG == <<"c","a","t",".","P","N","G">>
catTXT == <<"c","a","t",".","t","x","t">>

ImagePaths == {<<>>, catPNG, catTXT}

\* Paths with the other extensions of the table, without an extension, and
\* with a dot in the directory only.
ClassifyPaths ==
  {<<"c",".","j","p","g">>, <<"c",".","J","p","e","g">>, <<"c",".","g","i","f">>,
   <<"c",".","w","e","b","p">>, <<"c","a","t">>, <<"a",".","p","n","g","/","c">>}

AltTexts == {<<>>, <<" ">>, <<" ","a"," ">>}

\* Environments in which every provider is either fully configured or not at all.
ProfileEnvs ==
  {e \in [EnvVars -> {<<>>, <<"k">>}] :
     \A p \in supportedTargets : \A v, w \in ReadVars(p) : e[v] = e[w]}

CompleteEnv == [v \in EnvVars |-> <<"k">>]

\* Environments in which one provider's settings take every combination of values.
DetailedEnvs ==
  UNION {{[v \in EnvVars |-> IF v \in ReadVars(p) THEN f[v] ELSE b[v]] :
            f \in [ReadVars(p) -> EnvValues], b \in ProfileEnvs} :
         p \in supportedTargets}

Invocation(t, i, a, d, l, e) ==
  [messageFlag |-> hello, args |-> <<>>, stdin |-> Terminal,
   targetsFlag |-> t, imagePath |-> i, imageAlt |-> a, dryRun |-> d, legacy |-> l, env |-> e]

\* Every list of targets: simulated with or without an image, live without.
TargetInvocations ==
  {Invocation(t, i, <<>>, TRUE, l, e) :
     t \in SeqsUpTo(RawTargets, MaxTargets), i \in {<<>>, catPNG},
     l \in BOOLEAN, e \in ProfileEnvs}
  \cup
  {Invocation(t, <<>>, <<>>, FALSE, l, e) :
     t \in SeqsUpTo(RawTargets, MaxTargets), l \in BOOLEAN, e \in ProfileEnvs}

\* Every image and alt text posted to one provider, every image to all of them.
MediaInvocations ==
  {Invocation(t, i, a, d, l, CompleteEnv) :
     t \in {<<twitter>>, <<mastodon>>, <<bluesky>>},
     i \in ImagePaths, a \in AltTexts, d \in BOOLEAN, l \in BOOLEAN}
  \cup
  {Invocation(<<all>>, i, <<>>, d, l, CompleteEnv) :
     i \in ImagePaths, d \in BOOLEAN, l \in BOOLEAN}

\* Every combination of settings of one provider, with all targets selected.
EnvInvocations ==
  {Invocation(<<all>>, <<>>, <<>>, TRUE, l, e) : l \in BOOLEAN, e \in DetailedEnvs}

\* Every way of supplying the message, posted to one provider.
MessageInvocations ==
  {[Invocation(<<mastodon>>, <<>>, <<>>, d, FALSE, CompleteEnv)
      EXCEPT !.messageFlag = m, !.args = a, !.stdin = f] :
     m \in MessageFlags, a \in ArgLists, f \in StdinValues, d \in BOOLEAN}

\* Every path posted to Twitter through the chunked upload.
ClassifyInvocations ==
  {Invocation(<<twitter>>, i, <<>>, FALSE, FALSE, CompleteEnv) : i \in ClassifyPaths}

Invocations ==
  TargetInvocations \cup MediaInvocations \cup EnvInvocations \cup MessageInvocations
  \cup ClassifyInvocations

Call(p, l, i, a, k) == [p |-> p, legacy |-> l, imagePath |-> i, imageAlt |-> a, link |-> k]

\* dispatch called on one constructed poster with a Request whose Link the
\* caller has set (Request.Link, types.go:10); runRoot leaves Link empty.
LinkCalls == {Call(p, l, <<>>, <<>>, k) : p \in supportedTargets, l \in BOOLEAN, k \in Links}

\* dispatch called on a Twitter poster with a Request whose alt text the
\* caller has set as it is, blank or not.
AltCalls ==
  {Call(twitter, l, i, a, <<>>) :
     l \in BOOLEAN, i \in {<<>>, catPNG}, a \in AltTexts \cup {<<"a">>}}

Calls == LinkCalls \cup AltCalls

\* runRoot is entered with the flags of the invocation.
InitRunRoot ==
  /\ entry = "runRoot"
  /\ \E i \in Invocations :
       /\ messageFlag = i.messageFlag
       /\ args = i.args
       /\ stdin = i.stdin
       /\ targetsFlag = i.targetsFlag
       /\ imagePath = i.imagePath
       /\ imageAlt = i.imageAlt
       /\ dryRun = i.dryRun
       /\ legacy = i.legacy
       /\ env = i.env
  /\ pc = "resolveMessage"
  /\ message = <<>>
  /\ resolvedTargets = <<>>
  /\ req = [Message |-> <<>>, ImagePath |-> <<>>, ImageAlt |-> <<>>, Link |-> <<>>]
  /\ posters = <<>>
  /\ constructed = <<>>
  /\ events = <<>>

\* dispatch is entered with the poster buildPosters returned and the
\* caller's Request.
InitDispatch ==
  \E c \in Calls :
    /\ entry = "dispatch"
    /\ messageFlag = hello
    /\ args = <<>>
    /\ stdin = Terminal
    /\ message = hello
    /\ targetsFlag = <<c.p>>
    /\ imagePath = c.imagePath
    /\ imageAlt = c.imageAlt
    /\ dryRun = FALSE
    /\ legacy = c.legacy
    /\ env = CompleteEnv
    /\ pc = "dispatch"
    /\ resolvedTargets = <<c.p>>
    /\ req = [Message |-> hello, ImagePath |-> c.imagePath, ImageAlt |-> c.imageAlt, Link |-> c.link]
    /\ posters = <<c.p>>
    /\ constructed = <<[target |-> c.p, ok |-> TRUE, err |-> Nil, outcome |-> "ok"]>>
    /\ events = constructors(c.p, CompleteEnv, c.legacy, "ok").events

Init ==
  /\ InitRunRoot \/ InitDispatch
  /\ idx = 1
  /\ errs = <<>>
  /\ out = <<>>
  /\ ret = Nil
  /\ ppc = "idle"
  /\ upload = NoUpload
  /\ timer = 0
  /\ ctxDone = FALSE
  /\ fileOpen = FALSE
  /\ posted = <<>>
  /\ results = <<>>
  /\ observed = NoObserved
  /\ answers = <<>>
  /\ twin = NoTwin

----------------------------------------------------------------------------
\* runRoot, buildPosters, dispatch (cmd/root.go, unnamed/part_000)

\* Variant that never applies the default alt text.
buildRequest_NoDefault(msg, path, alt) ==
  [Message |-> msg, ImagePath |-> path, ImageAlt |-> TrimSpace(alt), Link |-> <<>>]

\* runRoot's Request, from the resolved message and the image flags.
buildRequest(msg, path, alt) ==
  LET r == [Message |-> msg, ImagePath |-> path, ImageAlt |-> TrimSpace(alt), Link |-> <<>>]
  IN IF r.ImageAlt = <<>> /\ r.ImagePath # <<>>
     THEN [r EXCEPT !.ImageAlt = defaultAltText]
     ELSE r

\* strings.Join(args, " ")
RECURSIVE JoinArgs(_)
JoinArgs(as) ==
  IF as = <<>> THEN <<>>
  ELSE IF Len(as) = 1 THEN as[1]
  ELSE as[1] \o <<" ">> \o JoinArgs(Tail(as))

\* resolveMessage: the message from the flag, the arguments or stdin.
resolveMessage(flag, as, in) ==
  IF Len(as) > 0 /\ flag # <<>>
  THEN [message |-> <<>>,
        err |-> ErrorString("provide the message either as an argument or with --message, not both", <<>>)]
  ELSE LET given == IF Len(as) > 0 THEN JoinArgs(as) ELSE flag
           piped == IF in.kind = "pipe" THEN TrimSpace(in.data) ELSE <<>>
       IN IF given # <<>> THEN [message |-> TrimSpace(given), err |-> Nil]
          ELSE IF in.kind \in {"statErr", "readErr"}
          THEN [message |-> <<>>, err |-> Wrap("read stdin", [kind |-> "io"])]
          ELSE IF piped = <<>>
          THEN [message |-> <<>>, err |-> ErrorString("message is required", <<>>)]
          ELSE [message |-> piped, err |-> Nil]

\* runRoot up to its check of resolveMessage's error.
ResolveMessage ==
  /\ pc = "resolveMessage"
  /\ LET r == resolveMessage(messageFlag, args, stdin) IN
       IF r.err # Nil
       THEN /\ ret' = r.err
            /\ pc' = "done"
            /\ UNCHANGED message
       ELSE /\ message' = r.message
            /\ pc' = "normalizeTargets"
            /\ UNCHANGED ret
  /\ UNCHANGED <<inputs, twin, resolvedTargets, req, posters, idx, errs, out, postVars, history>>

\* runRoot from normalizeTargets up to the call of buildPosters.
ResolveTargets ==
  /\ pc = "normalizeTargets"
  /\ LET r == normalizeTargets(targetsFlag) IN
       IF r.err # Nil
       THEN /\ ret' = r.err
            /\ pc' = "done"
            /\ UNCHANGED <<resolvedTargets, req>>
       ELSE /\ resolvedTargets' = r.targets
            /\ req' = buildRequest(message, imagePath, imageAlt)
            /\ pc' = "buildPosters"
            /\ ret' = Nil
  /\ idx' = 1
  /\ UNCHANGED <<inputs, twin, message, posters, errs, out, postVars, history>>

\* One iteration of buildPosters' loop: the constructor of targets[idx].
Construct ==
  /\ pc = "buildPosters"
  /\ idx <= Len(resolvedTargets)
  /\ LET target == resolvedTargets[idx] IN
     \E outcome \in NewOutcomes(target, legacy) :
       LET r == constructors(target, env, legacy, outcome) IN
         /\ constructed' = Append(constructed, [target |-> target, ok |-> r.ok, err |-> r.err, outcome |-> outcome])
         /\ events' = events \o r.events
         /\ IF r.err # Nil
            THEN /\ errs' = Append(errs, Wrap(target, r.err))
                 /\ UNCHANGED posters
            ELSE /\ posters' = Append(posters, target)
                 /\ UNCHANGED errs
  /\ idx' = idx + 1
  /\ UNCHANGED <<inputs, twin, message, pc, resolvedTargets, req, out, ret, postVars, posted, results,
                 observed, answers>>

\* Variant of the result that keeps the usable posters and drops the errors.
buildPostersResult_KeepUsable(ps, es) ==
  IF Len(ps) = 0 THEN [posters |-> <<>>, err |-> Join(es)]
  ELSE [posters |-> ps, err |-> Nil]

\* Variant of the result that returns only the first error.
buildPostersResult_FirstError(ps, es) ==
  IF Len(es) > 0 THEN [posters |-> <<>>, err |-> es[1]]
  ELSE IF Len(ps) = 0 THEN [posters |-> <<>>, err |-> ErrorString("no targets available", <<>>)]
  ELSE [posters |-> ps, err |-> Nil]

\* What buildPosters returns after its loop.
buildPostersResult(ps, es) ==
  IF Len(es) > 0 THEN [posters |-> <<>>, err |-> Join(es)]
  ELSE IF Len(ps) = 0 THEN [posters |-> <<>>, err |-> ErrorString("no targets available", <<>>)]
  ELSE [posters |-> ps, err |-> Nil]

\* The end of buildPosters and runRoot's check of its error.
BuildReturn ==
  /\ pc = "buildPosters"
  /\ idx > Len(resolvedTargets)
  /\ LET r == buildPostersResult(posters, errs) IN
       IF r.err # Nil
       THEN /\ ret' = r.err
            /\ pc' = "done"
            /\ posters' = r.posters
            /\ UNCHANGED errs
       ELSE /\ pc' = "dispatch"
            /\ posters' = r.posters
            /\ errs' = <<>>
            /\ UNCHANGED ret
  /\ idx' = 1
  /\ UNCHANGED <<inputs, twin, message, resolvedTargets, req, out, postVars, history>>

DryRunLine(name, msg) == [kind |-> "would post", p |-> name, message |-> msg]

DryRunImageLine(path, alt) == [kind |-> "image", path |-> path, alt |-> alt]

PostingLine(name) == [kind |-> "posting", p |-> name]

PostedLine(name) == [kind |-> "posted", p |-> name]

ErrorLine(err) == [kind |-> "error", err |-> err]

\* Variant of the simulate branch with the image line inside the loop.
simulateLines_ImagePerPoster(ps, r) ==
  IF r.ImagePath # <<>>
  THEN [i \in 1..(2 * Len(ps)) |->
          IF i % 2 = 1 THEN DryRunLine(ps[(i + 1) \div 2], r.Message)
          ELSE DryRunImageLine(r.ImagePath, r.ImageAlt)]
  ELSE [i \in 1..Len(ps) |-> DryRunLine(ps[i], r.Message)]

\* The lines dispatch writes in simulate mode.
simulateLines(ps, r) ==
  [i \in 1..Len(ps) |-> DryRunLine(ps[i], r.Message)]
  \o (IF r.ImagePath # <<>> THEN <<DryRunImageLine(r.ImagePath, r.ImageAlt)>> ELSE <<>>)

\* dispatch with simulate set.
DispatchSimulate ==
  /\ pc = "dispatch"
  /\ dryRun
  /\ out' = out \o simulateLines(posters, req)
  /\ ret' = Nil
  /\ pc' = "done"
  /\ UNCHANGED <<inputs, twin, message, resolvedTargets, req, posters, idx, errs, postVars, history>>

\* Variant of the loop body that writes the confirmation line before the
\* error check.
afterPost_ConfirmFirst(name, err, es, o, i) ==
  IF err # Nil
  THEN [errs |-> Append(es, Wrap(name, err)), out |-> Append(o, PostedLine(name)), idx |-> i + 1]
  ELSE [errs |-> es, out |-> Append(o, PostedLine(name)), idx |-> i + 1]

\* Variant of the loop body that breaks out of the loop on the first error.
afterPost_StopOnError(name, err, es, o, i) ==
  IF err # Nil
  THEN [errs |-> Append(es, Wrap(name, err)), out |-> o, idx |-> Len(posters) + 1]
  ELSE [errs |-> es, out |-> Append(o, PostedLine(name)), idx |-> i + 1]

\* The body of dispatch's live loop once poster.Post has returned err:
\* the errs slice, the output and the index of the next iteration.
afterPost(name, err, es, o, i) ==
  IF err # Nil
  THEN [errs |-> Append(es, Wrap(name, err)), out |-> o, idx |-> i + 1]
  ELSE [errs |-> es, out |-> Append(o, PostedLine(name)), idx |-> i + 1]

\* The running Post call returns err to dispatch.
PostReturns(err) ==
  LET name == posters[idx]
      r == afterPost(name, err, errs, out, idx)
  IN /\ results' = Append(results, [p |-> name, err |-> err])
     /\ errs' = r.errs
     /\ out' = r.out
     /\ idx' = r.idx
     /\ ppc' = "idle"
     /\ upload' = NoUpload
     /\ timer' = 0

\* Variant in which a poster skips its image once an earlier Post has failed.
postEntry_AfterFailure(name, old, r) ==
  IF name = twitter /\ ~old
  THEN IF TrimSpace(r.ImagePath) # <<>> /\ errs = <<>> THEN "tw_readFile" ELSE "tw_create"
  ELSE IF name = twitter
  THEN IF r.ImagePath # <<>> /\ errs = <<>> THEN "tw1_open" ELSE "tw1_update"
  ELSE IF name = mastodon
  THEN IF r.ImagePath # <<>> /\ errs = <<>> THEN "ma_open" ELSE "ma_postStatus"
  ELSE IF r.ImagePath # <<>> /\ errs = <<>> THEN "bs_open" ELSE "bs_createRecord"

\* The first step of Post, by provider: the media pipeline or the post itself.
postEntry(name, old, r) ==
  IF name = twitter /\ ~old
  THEN IF TrimSpace(r.ImagePath) # <<>> THEN "tw_readFile" ELSE "tw_create"
  ELSE IF name = twitter
  THEN IF r.ImagePath # <<>> THEN "tw1_open" ELSE "tw1_update"
  ELSE IF name = mastodon
  THEN IF r.ImagePath # <<>> THEN "ma_open" ELSE "ma_postStatus"
  ELSE IF r.ImagePath # <<>> THEN "bs_open" ELSE "bs_createRecord"

\* dispatch's live loop calls poster.Post on posters[idx].
PostBegin ==
  /\ pc = "dispatch"
  /\ ~dryRun
  /\ ppc = "idle"
  /\ idx <= Len(posters)
  /\ posted' = Append(posted, posters[idx])
  /\ out' = IF legacy THEN Append(out, PostingLine(posters[idx])) ELSE out
  /\ ppc' = postEntry(posters[idx], legacy, req)
  /\ UNCHANGED <<inputs, twin, message, pc, resolvedTargets, req, posters, idx, errs, ret,
                 upload, timer, ctxDone, fileOpen, constructed, results, events, observed, answers>>

\* Variant that returns the first failure only.
dispatchResult_FirstOnly(es, o, old) ==
  IF Len(es) > 0
  THEN [out |-> IF old THEN o ELSE o \o [i \in 1..Len(es) |-> ErrorLine(es[i])],
        err |-> Join(<<es[1]>>)]
  ELSE [out |-> o, err |-> Nil]

\* What dispatch writes and returns after the live loop.
dispatchResult(es, o, old) ==
  IF Len(es) > 0
  THEN [out |-> IF old THEN o ELSE o \o [i \in 1..Len(es) |-> ErrorLine(es[i])],
        err |-> Join(es)]
  ELSE [out |-> o, err |-> Nil]

\* The end of dispatch in live mode.
DispatchReturn ==
  /\ pc = "dispatch"
  /\ ~dryRun
  /\ ppc = "idle"
  /\ idx > Len(posters)
  /\ LET r == dispatchResult(errs, out, legacy) IN
       /\ out' = r.out
       /\ ret' = r.err
  /\ pc' = "done"
  /\ UNCHANGED <<inputs, twin, message, resolvedTargets, req, posters, idx, errs, postVars, history>>

----------------------------------------------------------------------------
\* The providers' remote services and the file system

RemoteError(op) == [kind |-> "remote", op |-> op]

\* Outcomes of a request that carries the caller's context: the context may be
\* cancelled while the request is in flight, and a done context fails it.
WithCtx(outcomes) == IF ctxDone THEN {"cancelled"} ELSE outcomes \cup {"cancelled"}

Cancelled(outcome) == ctxDone \/ outcome = "cancelled"

\* The error a failed request returns.
RequestError(op, outcome) ==
  IF outcome = "cancelled" THEN ContextCanceled ELSE RemoteError(op)

\* http.DetectContentType results the model's files have.
imageJPEG == <<"i","m","a","g","e","/","j","p","e","g">>
imagePNG  == <<"i","m","a","g","e","/","p","n","g">>
imageGIF  == <<"i","m","a","g","e","/","g","i","f">>
imageWEBP == <<"i","m","a","g","e","/","w","e","b","p">>
textPlain == <<"t","e","x","t","/","p","l","a","i","n">>

DetectedTypes == {imageJPEG, imagePNG, imageGIF, imageWEBP, textPlain}

\* strings.Contains
Contains(s, sub) ==
  \E i \in 1..(Len(s) - Len(sub) + 1) : SubSeq(s, i, i + Len(sub) - 1) = sub

\* filepath.Ext
RECURSIVE ExtFrom(_, _)
ExtFrom(path, i) ==
  IF i < 1 \/ path[i] = "/" THEN <<>>
  ELSE IF path[i] = "." THEN SubSeq(path, i, Len(path))
  ELSE ExtFrom(path, i - 1)

Ext(path) == ExtFrom(path, Len(path))

\* Variant of resolveMediaType that looks at the content before the extension.
resolveMediaType_SniffFirst(path, detected) ==
  LET ext == ToLower(Ext(path)) IN
  IF Contains(detected, <<"j","p","e","g">>)
  THEN [mediaType |-> "image/jpeg", category |-> "tweet_image", err |-> Nil]
  ELSE IF Contains(detected, <<"p","n","g">>)
  THEN [mediaType |-> "image/png", category |-> "tweet_image", err |-> Nil]
  ELSE IF Contains(detected, <<"g","i","f">>)
  THEN [mediaType |-> "image/gif", category |-> "tweet_gif", err |-> Nil]
  ELSE IF Contains(detected, <<"w","e","b","p">>)
  THEN [mediaType |-> "image/webp", category |-> "tweet_image", err |-> Nil]
  ELSE IF ext \in {<<".","j","p","g">>, <<".","j","p","e","g">>}
  THEN [mediaType |-> "image/jpeg", category |-> "tweet_image", err |-> Nil]
  ELSE IF ext = <<".","p","n","g">>
  THEN [mediaType |-> "image/png", category |-> "tweet_image", err |-> Nil]
  ELSE IF ext = <<".","g","i","f">>
  THEN [mediaType |-> "image/gif", category |-> "tweet_gif", err |-> Nil]
  ELSE IF ext = <<".","w","e","b","p">>
  THEN [mediaType |-> "image/webp", category |-> "tweet_image", err |-> Nil]
  ELSE [mediaType |-> "", category |-> "",
        err |-> ValidationError(twitter, "unsupported image type", path)]

\* Variant of resolveMediaType that falls back to JPEG.
resolveMediaType_Fallback(path, detected) ==
  [mediaType |-> "image/jpeg", category |-> "tweet_image", err |-> Nil]

\* resolveMediaType (gotwi twitter package)
resolveMediaType(path, detected) ==
  LET ext == ToLower(Ext(path)) IN
  IF ext \in {<<".","j","p","g">>, <<".","j","p","e","g">>}
  THEN [mediaType |-> "image/jpeg", category |-> "tweet_image", err |-> Nil]
  ELSE IF ext = <<".","p","n","g">>
  THEN [mediaType |-> "image/png", category |-> "tweet_image", err |-> Nil]
  ELSE IF ext = <<".","g","i","f">>
  THEN [mediaType |-> "image/gif", category |-> "tweet_gif", err |-> Nil]
  ELSE IF ext = <<".","w","e","b","p">>
  THEN [mediaType |-> "image/webp", category |-> "tweet_image", err |-> Nil]
  ELSE IF Contains(detected, <<"j","p","e","g">>)
  THEN [mediaType |-> "image/jpeg", category |-> "tweet_image", err |-> Nil]
  ELSE IF Contains(detected, <<"p","n","g">>)
  THEN [mediaType |-> "image/png", category |-> "tweet_image", err |-> Nil]
  ELSE IF Contains(detected, <<"g","i","f">>)
  THEN [mediaType |-> "image/gif", category |-> "tweet_gif", err |-> Nil]
  ELSE IF Contains(detected, <<"w","e","b","p">>)
  THEN [mediaType |-> "image/webp", category |-> "tweet_image", err |-> Nil]
  ELSE [mediaType |-> "", category |-> "",
        err |-> ValidationError(twitter, "unsupported image type", path)]

\* Variant that does not tell a missing file from other failures.
openError_Generic(provider, path, outcome, wrap) == Wrap(wrap, [kind |-> "io"])

\* The error of a failed os.Open / os.ReadFile, as the providers translate it.
openError(provider, path, outcome, wrap) ==
  IF outcome = "notfound"
  THEN ValidationError(provider, "image not found", path)
  ELSE Wrap(wrap, [kind |-> "io"])

\* Variant that closes the file only when the upload succeeded.
fileAfterUpload_CloseOnSuccess(o) == o \notin {"ok", "okNotNumeric"}

\* defer file.Close(): whether the handle is still open once the upload
\* function has returned with outcome o.
fileAfterUpload(o) == FALSE

\* Outcomes of opening or reading the image file.
OpenOutcomes == {"notfound", "ioerr", "ok"}

ReadFileOutcomes ==
  {[status |-> "notfound"], [status |-> "ioerr"]}
  \cup {[status |-> "ok", detected |-> d] : d \in DetectedTypes}

InPost(step) == pc = "dispatch" /\ ppc = step

\* What the file system, a remote service, the timer or the context answered
\* to a step of p's Post: the outcome and, where there is one, the sniffed
\* content type or the processing state and delay.
Answer(p, o, detected, state, secs) ==
  [p |-> p, o |-> o, detected |-> detected, state |-> state, secs |-> secs]

Answered(p, o) == answers' = Append(answers, Answer(p, o, <<>>, "", 0))

\* The running Post call moves on to its next step.
Goto(next, up, t) ==
  /\ ppc' = next
  /\ upload' = up
  /\ timer' = t
  /\ UNCHANGED <<errs, out, idx, results>>

PostFrame == UNCHANGED <<inputs, twin, pc, message, resolvedTargets, req, posters, ret, constructed, posted>>

----------------------------------------------------------------------------
\* twitter.Client.Post and uploadMedia, gotwi package (mastodon.go:216-342)

\* The error of a failed upload stage.
twStageError(stage, op, outcome) ==
  IF outcome = "partial" THEN Wrap(stage, ErrorString("partial error", <<>>))
  ELSE Wrap(stage, RequestError(op, outcome))

\* Variant that sends the segment again once processing is over.
twAfterProcessing_Reappend(alt) == "tw_append"

\* After processing: the alt-text call when the alt text is not blank, or back
\* in Post with the media id.
twAfterProcessing(alt) ==
  IF TrimSpace(alt) # <<>> THEN "tw_setAltText" ELSE "tw_create"

\* os.ReadFile and resolveMediaType
TwReadFile ==
  /\ InPost("tw_readFile")
  /\ \E f \in ReadFileOutcomes :
       /\ answers' = Append(answers, Answer(twitter, f.status,
                                             IF f.status = "ok" THEN f.detected ELSE <<>>, "", 0))
       /\ IF f.status # "ok"
          THEN /\ PostReturns(openError(twitter, req.ImagePath, f.status, "read image"))
               /\ events' = Append(events, Event(twitter, "readFile", FALSE))
               /\ observed' = [observed EXCEPT !.file[twitter] = f.status]
          ELSE LET m == resolveMediaType(req.ImagePath, f.detected) IN
               /\ observed' = [observed EXCEPT !.file[twitter] = f.status, !.detected = f.detected,
                                                !.mediaType = m.mediaType, !.category = m.category]
               /\ events' = events \o <<Event(twitter, "readFile", TRUE),
                                        Event(twitter, "classify", m.err = Nil)>>
               /\ IF m.err # Nil THEN PostReturns(m.err)
                  ELSE Goto("tw_initialize", upload, 0)
  /\ UNCHANGED <<ctxDone, fileOpen>>
  /\ PostFrame

\* upload.Initialize
TwInitialize ==
  /\ InPost("tw_initialize")
  /\ \E o \in WithCtx({"ok", "err", "partial"}) :
       /\ events' = Append(events, Event(twitter, "initialize", o = "ok"))
       /\ Answered(twitter, o)
       /\ ctxDone' = Cancelled(o)
       /\ IF o = "ok" THEN Goto("tw_append", [mediaID |-> <<"7">>], 0)
          ELSE PostReturns(twStageError("initialize upload", "initialize", o))
  /\ UNCHANGED fileOpen
  /\ UNCHANGED observed
  /\ PostFrame

\* upload.Append, segment 0
TwAppend ==
  /\ InPost("tw_append")
  /\ \E o \in WithCtx({"ok", "err", "partial"}) :
       /\ events' = Append(events, Event(twitter, "append", o = "ok"))
       /\ Answered(twitter, o)
       /\ ctxDone' = Cancelled(o)
       /\ IF o = "ok" THEN Goto("tw_finalize", upload, 0)
          ELSE PostReturns(twStageError("append upload", "append", o))
  /\ UNCHANGED fileOpen
  /\ UNCHANGED observed
  /\ PostFrame

\* What the remote service answers to finalize: a failure, or a processing
\* state ("failed" stands for every state the switch does not name).
FinalizeOutcomes ==
  {[r |-> "err", state |-> "", secs |-> 0], [r |-> "partial", state |-> "", secs |-> 0],
   [r |-> "cancelled", state |-> "", secs |-> 0]}
  \cup {[r |-> "ok", state |-> s, secs |-> 0] : s \in {"", "succeeded", "failed"}}
  \cup {[r |-> "ok", state |-> s, secs |-> n] : s \in {"pending", "in_progress"}, n \in 0..MaxWait}

\* Variant of the switch that polls finalize again while processing goes on.
twProcessing_Poll(state, secs, alt) ==
  IF state \in {"", "succeeded"}
  THEN [next |-> twAfterProcessing(alt), timer |-> 0, err |-> Nil]
  ELSE IF state \in {"in_progress", "pending"}
  THEN [next |-> "tw_finalize", timer |-> 0, err |-> Nil]
  ELSE [next |-> "idle", timer |-> 0,
        err |-> ErrorString("media processing failed: state", <<state>>)]

\* Variant of the switch that waits on an unknown state too.
twProcessing_WaitOnUnknown(state, secs, alt) ==
  IF state \in {"", "succeeded"}
  THEN [next |-> twAfterProcessing(alt), timer |-> 0, err |-> Nil]
  ELSE [next |-> "tw_wait", timer |-> secs, err |-> Nil]

\* Variant of the switch that waits on every reported state.
twProcessing_WaitOnSucceeded(state, secs, alt) ==
  IF state = ""
  THEN [next |-> twAfterProcessing(alt), timer |-> 0, err |-> Nil]
  ELSE IF state \in {"succeeded", "in_progress", "pending"}
  THEN [next |-> "tw_wait", timer |-> secs, err |-> Nil]
  ELSE [next |-> "idle", timer |-> 0,
        err |-> ErrorString("media processing failed: state", <<state>>)]

\* Variant of the switch without its default case.
twProcessing_NoDefault(state, secs, alt) ==
  IF state \in {"in_progress", "pending"}
  THEN [next |-> "tw_wait", timer |-> secs, err |-> Nil]
  ELSE [next |-> twAfterProcessing(alt), timer |-> 0, err |-> Nil]

\* The switch on the processing state finalize reported.
twProcessing(state, secs, alt) ==
  IF state \in {"", "succeeded"}
  THEN [next |-> twAfterProcessing(alt), timer |-> 0, err |-> Nil]
  ELSE IF state \in {"in_progress", "pending"}
  THEN [next |-> "tw_wait", timer |-> secs, err |-> Nil]
  ELSE [next |-> "idle", timer |-> 0,
        err |-> ErrorString("media processing failed: state", <<state>>)]

\* upload.Finalize and the switch on its processing state
TwFinalize ==
  /\ InPost("tw_finalize")
  /\ \E o \in {f \in FinalizeOutcomes : ctxDone => f.r = "cancelled"} :
       /\ ctxDone' = Cancelled(o.r)
       /\ answers' = Append(answers, Answer(twitter, o.r, <<>>, o.state, o.secs))
       /\ IF o.r # "ok"
          THEN /\ events' = Append(events, Event(twitter, "finalize", FALSE))
               /\ PostReturns(twStageError("finalize upload", "finalize", o.r))
               /\ UNCHANGED observed
          ELSE LET sw == twProcessing(o.state, o.secs, req.ImageAlt) IN
               /\ observed' = [observed EXCEPT !.state = o.state, !.secs = o.secs]
               /\ events' = events \o <<Event(twitter, "finalize", TRUE),
                                        Event(twitter, "processing", o.state # "failed")>>
               /\ IF sw.err # Nil THEN PostReturns(sw.err)
                  ELSE Goto(sw.next, upload, sw.timer)
  /\ UNCHANGED fileOpen
  /\ PostFrame

\* Variant of the select that queries finalize again once the timer fires.
twSelect_Requery(done, alt) ==
  IF done THEN [next |-> "idle", err |-> ContextCanceled]
  ELSE [next |-> "tw_finalize", err |-> Nil]

\* Variant of the select that does not listen to ctx.Done().
twSelect_IgnoreDone(done, alt) == [next |-> twAfterProcessing(alt), err |-> Nil]

\* The select on ctx.Done() and timer.C: the context's error, or on with the
\* upload as if processing had succeeded.
twSelect(done, alt) ==
  IF done THEN [next |-> "idle", err |-> ContextCanceled]
  ELSE [next |-> twAfterProcessing(alt), err |-> Nil]

\* A second passes while the select waits on the timer.
Tick ==
  /\ InPost("tw_wait")
  /\ timer > 0
  /\ timer' = timer - 1
  /\ observed' = [observed EXCEPT !.waited = @ + 1]
  /\ UNCHANGED <<inputs, twin, message, pc, resolvedTargets, req, posters, idx, errs, out, ret, ppc,
                 upload, ctxDone, fileOpen, constructed, posted, results, events, answers>>

\* select: case <-timer.C
TwWaitElapsed ==
  /\ InPost("tw_wait")
  /\ timer = 0
  /\ events' = Append(events, Event(twitter, "wait", TRUE))
  /\ Answered(twitter, "elapsed")
  /\ LET sel == twSelect(FALSE, req.ImageAlt) IN
       IF sel.err # Nil THEN PostReturns(sel.err) ELSE Goto(sel.next, upload, 0)
  /\ UNCHANGED <<ctxDone, fileOpen, observed>>
  /\ PostFrame

\* select: case <-ctx.Done()
TwWaitCancelled ==
  /\ InPost("tw_wait")
  /\ ctxDone' = TRUE
  /\ events' = Append(events, Event(twitter, "wait", FALSE))
  /\ Answered(twitter, "cancelled")
  /\ LET sel == twSelect(TRUE, req.ImageAlt) IN
       IF sel.err # Nil THEN PostReturns(sel.err) ELSE Goto(sel.next, upload, 0)
  /\ UNCHANGED <<fileOpen, observed>>
  /\ PostFrame

\* setAltText
TwSetAltText ==
  /\ InPost("tw_setAltText")
  /\ \E o \in WithCtx({"ok", "err"}) :
       /\ events' = Append(events, Event(twitter, "metadata", o = "ok"))
       /\ Answered(twitter, o)
       /\ ctxDone' = Cancelled(o)
       /\ IF o = "ok" THEN Goto("tw_create", upload, 0)
          ELSE PostReturns(Wrap("set alt text", RequestError("metadata", o)))
  /\ UNCHANGED fileOpen
  /\ UNCHANGED observed
  /\ PostFrame

\* The text of the tweet: CreateInput.Text
twText(r) == Text(r.Message, <<>>, <<>>)

\* What Post returns after managetweet.Create.
twCreateResult(o) ==
  IF o = "ok" THEN Nil ELSE Wrap("post tweet", RequestError("create", o))

\* managetweet.Create
TwCreate ==
  /\ InPost("tw_create")
  /\ \E o \in WithCtx({"ok", "err"}) :
       /\ events' = Append(events, Event(twitter, "create", o = "ok"))
       /\ Answered(twitter, o)
       /\ ctxDone' = Cancelled(o)
       /\ PostReturns(twCreateResult(o))
       /\ observed' = [observed EXCEPT !.text[twitter] = twText(req)]
  /\ UNCHANGED fileOpen
  /\ PostFrame

----------------------------------------------------------------------------
\* twitter.Client.Post and uploadMedia, oauth1 package (twitter.go:73-186)

IsDigit(c) == c \in {"0","1","2","3","4","5","6","7","8","9"}

\* strconv.ParseInt(mediaID, 10, 64) succeeds
ParseIntOK(id) == id # <<>> /\ \A i \in 1..Len(id) : IsDigit(id[i])

\* Post after uploadMedia and the alt-text call: ParseInt, then the status
\* update; ev is the history up to here.
Tw1Parse(up, ev) ==
  /\ events' = Append(ev, Event(twitter, "parse", ParseIntOK(up.mediaID)))
  /\ IF ParseIntOK(up.mediaID) THEN Goto("tw1_update", up, 0)
     ELSE PostReturns(Wrap("parse media id", ErrorString("invalid syntax", up.mediaID)))

\* uploadMedia: os.Open
Tw1Open ==
  /\ InPost("tw1_open")
  /\ \E f \in OpenOutcomes :
       /\ events' = Append(events, Event(twitter, "open", f = "ok"))
       /\ Answered(twitter, f)
       /\ observed' = [observed EXCEPT !.file[twitter] = f]
       /\ IF f # "ok"
          THEN /\ PostReturns(Wrap("upload media", openError(twitter, req.ImagePath, f, "open image")))
               /\ UNCHANGED fileOpen
          ELSE /\ Goto("tw1_upload", upload, 0)
               /\ fileOpen' = TRUE
  /\ UNCHANGED ctxDone
  /\ PostFrame

\* The error uploadMedia returns, as Post wraps it.
tw1UploadError(o) ==
  Wrap("upload media",
       IF o = "copyErr" THEN Wrap("copy media", [kind |-> "io"])
       ELSE RequestError("upload", o))

\* uploadMedia: the multipart form, the upload request and its response; then
\* Post up to its next request
Tw1Upload ==
  /\ InPost("tw1_upload")
  /\ \E o \in {"copyErr"} \cup WithCtx({"doErr", "status400", "decodeErr", "missingID", "ok", "okNotNumeric"}) :
       LET ev == Append(events, IF o = "copyErr" THEN Event(twitter, "copy", FALSE)
                                ELSE Event(twitter, "upload", o \in {"ok", "okNotNumeric"}))
           up == [mediaID |-> IF o = "ok" THEN <<"7">> ELSE <<"x">>]
       IN /\ ctxDone' = Cancelled(o)
          /\ Answered(twitter, o)
          /\ fileOpen' = fileAfterUpload(o)
          /\ IF o \in {"ok", "okNotNumeric"}
             THEN IF req.ImageAlt # <<>>
                  THEN /\ Goto("tw1_setAltText", up, 0)
                       /\ events' = ev
                  ELSE Tw1Parse(up, ev)
             ELSE /\ PostReturns(tw1UploadError(o))
                  /\ events' = ev
  /\ UNCHANGED observed
  /\ PostFrame

\* setAltText, then Post up to its next request
Tw1SetAltText ==
  /\ InPost("tw1_setAltText")
  /\ \E o \in WithCtx({"ok", "doErr", "status400"}) :
       LET ev == Append(events, Event(twitter, "metadata", o = "ok")) IN
       /\ ctxDone' = Cancelled(o)
       /\ Answered(twitter, o)
       /\ IF o = "ok" THEN Tw1Parse(upload, ev)
          ELSE /\ PostReturns(Wrap("set alt text", RequestError("metadata", o)))
               /\ events' = ev
  /\ UNCHANGED fileOpen
  /\ UNCHANGED observed
  /\ PostFrame

\* The status text passed to Statuses.Update
tw1Text(r) == Text(r.Message, <<>>, <<>>)

\* What Post returns after Statuses.Update.
tw1UpdateResult(o) ==
  IF o = "ok" THEN Nil ELSE Wrap("publish status", RemoteError("create"))

\* Statuses.Update: the request does not carry the caller's context, which
\* may be cancelled while the request is in flight
Tw1Update ==
  /\ InPost("tw1_update")
  /\ \E o \in {"ok", "err"}, cancel \in BOOLEAN :
       /\ events' = Append(events, Event(twitter, "create", o = "ok"))
       /\ Answered(twitter, o)
       /\ ctxDone' = (ctxDone \/ cancel)
       /\ PostReturns(tw1UpdateResult(o))
       /\ observed' = [observed EXCEPT !.text[twitter] = tw1Text(req)]
  /\ UNCHANGED fileOpen
  /\ PostFrame

----------------------------------------------------------------------------
\* mastodon.Client.Post and uploadMedia (mastodon.go:60-106)

\* uploadMedia: os.Open
MaOpen ==
  /\ InPost("ma_open")
  /\ \E f \in OpenOutcomes :
       /\ events' = Append(events, Event(mastodon, "open", f = "ok"))
       /\ Answered(mastodon, f)
       /\ observed' = [observed EXCEPT !.file[mastodon] = f]
       /\ IF f # "ok"
          THEN /\ PostReturns(openError(mastodon, req.ImagePath, f, "open image"))
               /\ UNCHANGED fileOpen
          ELSE /\ Goto("ma_upload", upload, 0)
               /\ fileOpen' = TRUE
  /\ UNCHANGED ctxDone
  /\ PostFrame

\* uploadMedia: UploadMediaFromMedia
MaUpload ==
  /\ InPost("ma_upload")
  /\ \E o \in WithCtx({"ok", "err"}) :
       /\ events' = Append(events, Event(mastodon, "upload", o = "ok"))
       /\ Answered(mastodon, o)
       /\ ctxDone' = Cancelled(o)
       /\ fileOpen' = fileAfterUpload(o)
       /\ IF o = "ok" THEN Goto("ma_postStatus", [mediaID |-> <<"7">>], 0)
          ELSE PostReturns(Wrap("upload media", RequestError("upload", o)))
  /\ UNCHANGED observed
  /\ PostFrame

\* The status text: the message, and the link after an empty line
maText(r) ==
  IF r.Link # <<>> THEN Text(r.Message, <<"\n", "\n">>, r.Link)
  ELSE Text(r.Message, <<>>, <<>>)

\* Variant that ignores the error of PostStatus.
maPostStatusResult_Swallowed(o) == Nil

\* What Post returns after PostStatus.
maPostStatusResult(o) ==
  IF o = "ok" THEN Nil ELSE Wrap("post status", RequestError("create", o))

\* PostStatus
MaPostStatus ==
  /\ InPost("ma_postStatus")
  /\ \E o \in WithCtx({"ok", "err"}) :
       /\ events' = Append(events, Event(mastodon, "create", o = "ok"))
       /\ Answered(mastodon, o)
       /\ ctxDone' = Cancelled(o)
       /\ PostReturns(maPostStatusResult(o))
       /\ observed' = [observed EXCEPT !.text[mastodon] = maText(req)]
  /\ UNCHANGED fileOpen
  /\ PostFrame

----------------------------------------------------------------------------
\* bluesky.Client.Post and uploadImage (twitter.go:304-366)

\* uploadImage: os.Open
BsOpen ==
  /\ InPost("bs_open")
  /\ \E f \in OpenOutcomes :
       /\ events' = Append(events, Event(bluesky, "open", f = "ok"))
       /\ Answered(bluesky, f)
       /\ observed' = [observed EXCEPT !.file[bluesky] = f]
       /\ IF f # "ok"
          THEN /\ PostReturns(openError(bluesky, req.ImagePath, f, "open image"))
               /\ UNCHANGED fileOpen
          ELSE /\ Goto("bs_upload", upload, 0)
               /\ fileOpen' = TRUE
  /\ UNCHANGED ctxDone
  /\ PostFrame

\* The error uploadImage returns once the file is open.
bsUploadError(o) ==
  IF o = "readErr" THEN Wrap("read image", [kind |-> "io"])
  ELSE IF o = "nilBlob" THEN ErrorString("upload blob: empty response", <<>>)
  ELSE Wrap("upload blob", RequestError("upload", o))

\* uploadImage: io.Copy and RepoUploadBlob
BsUpload ==
  /\ InPost("bs_upload")
  /\ \E o \in {"readErr"} \cup WithCtx({"ok", "err", "nilBlob"}) :
       /\ events' = Append(events, IF o = "readErr" THEN Event(bluesky, "copy", FALSE)
                                   ELSE Event(bluesky, "upload", o = "ok"))
       /\ Answered(bluesky, o)
       /\ ctxDone' = Cancelled(o)
       /\ fileOpen' = fileAfterUpload(o)
       /\ IF o = "ok" THEN Goto("bs_createRecord", [mediaID |-> <<"7">>], 0)
          ELSE PostReturns(bsUploadError(o))
  /\ UNCHANGED observed
  /\ PostFrame

\* The text of the post: FeedPost.Text
bsText(r) == Text(r.Message, <<>>, <<>>)

\* What Post returns after RepoCreateRecord.
bsCreateRecordResult(o) ==
  IF o = "ok" THEN Nil ELSE Wrap("create record", RequestError("create", o))

\* RepoCreateRecord
BsCreateRecord ==
  /\ InPost("bs_createRecord")
  /\ \E o \in WithCtx({"ok", "err"}) :
       /\ events' = Append(events, Event(bluesky, "create", o = "ok"))
       /\ Answered(bluesky, o)
       /\ ctxDone' = Cancelled(o)
       /\ PostReturns(bsCreateRecordResult(o))
       /\ observed' = [observed EXCEPT !.text[bluesky] = bsText(req)]
  /\ UNCHANGED fileOpen
  /\ PostFrame

----------------------------------------------------------------------------
\* Specification

Next ==
  \/ ResolveMessage
  \/ ResolveTargets
  \/ Construct
  \/ BuildReturn
  \/ DispatchSimulate
  \/ PostBegin
  \/ DispatchReturn
  \/ TwReadFile
  \/ TwInitialize
  \/ TwAppend
  \/ TwFinalize
  \/ Tick
  \/ TwWaitElapsed
  \/ TwWaitCancelled
  \/ TwSetAltText
  \/ TwCreate
  \/ Tw1Open
  \/ Tw1Upload
  \/ Tw1SetAltText
  \/ Tw1Update
  \/ MaOpen
  \/ MaUpload
  \/ MaPostStatus
  \/ BsOpen
  \/ BsUpload
  \/ BsCreateRecord

Spec == Init /\ [][Next]_vars

----------------------------------------------------------------------------
\* Properties

Names(c) == [i \in 1..Len(c) |-> c[i].target]

\* The providers in lexicographic order of name: bluesky, mastodon, twitter.
Rank(n) == IF n = bluesky THEN 1 ELSE IF n = mastodon THEN 2 ELSE IF n = twitter THEN 3 ELSE 0

Ascending(s) ==
  \A i \in 1..Len(s) : Rank(s[i]) > 0 /\ (i < Len(s) => Rank(s[i]) < Rank(s[i + 1]))

\* runRoot returned from dispatch in live mode (buildPosters hands posters to
\* dispatch only when it returns no error).
LiveDispatchReturned == pc = "done" /\ ~dryRun /\ posters # <<>>

Occurrences(s, x) == Cardinality({j \in 1..Len(s) : s[j] = x})

\* C1: in live mode dispatch calls Post exactly once on every poster of the
\* list, whatever the earlier Post calls returned: between two Post calls the
\* posters before idx have each been called, and at the end all of them have.
C1_EveryPosterPosted ==
  /\ (pc = "dispatch" /\ ~dryRun /\ ppc = "idle") => posted = SubSeq(posters, 1, idx - 1)
  /\ LiveDispatchReturned =>
       /\ \A i \in 1..Len(posters) : Occurrences(posted, posters[i]) = 1
       /\ Len(posted) = Len(posters)
       /\ Len(results) = Len(posters)

C1_Witness ==
  /\ LiveDispatchReturned
  /\ Len(posters) = 3
  /\ results[1].err # Nil
  /\ results[2].err # Nil
  /\ posted = posters

AnyProviderFailure ==
  \/ \E i \in 1..Len(constructed) : constructed[i].err # Nil
  \/ \E i \in 1..Len(results) : results[i].err # Nil

\* C2 as stated: a live invocation returns an error if and only if some
\* provider's construction or Post failed.
C2_ErrorIffProviderFailure ==
  (pc = "done" /\ ~dryRun) => ((ret # Nil) <=> AnyProviderFailure)

\* C2, amended: a live invocation returns an error if and only if target
\* resolution failed or some provider's construction or Post failed.
C2_ErrorIffResolutionOrProviderFailure ==
  (pc = "done" /\ ~dryRun) => ((ret # Nil) <=> (resolvedTargets = <<>> \/ AnyProviderFailure))

C2_Witness ==
  /\ pc = "done"
  /\ ~dryRun
  /\ ret # Nil
  /\ \A i \in 1..Len(constructed) : constructed[i].err = Nil
  /\ \E i \in 1..Len(results) : results[i].err = Nil
  /\ \E i \in 1..Len(results) : results[i].err # Nil

\* C3: for every accepted target list the providers are constructed, and then
\* posted to, in strictly ascending order of name, each at most once; every
\* constructor call precedes the first Post call.
C3_AscendingOrder ==
  /\ Ascending(Names(constructed))
  /\ Ascending(posted)
  /\ posted # <<>> => Names(constructed) = resolvedTargets
  /\ Range(posted) \subseteq Range(Names(constructed))

C3_Witness ==
  /\ targetsFlag = <<twitter, bluesky>>
  /\ pc = "done"
  /\ Names(constructed) = <<bluesky, twitter>>
  /\ posted = <<bluesky, twitter>>

\* C4 as stated: when some targets fail construction and others construct,
\* the failure is collected in the returned error and Post is called on each
\* poster that was constructed.
C4_UsablePostersDispatched ==
  (/\ pc = "done"
   /\ ~dryRun
   /\ \E i \in 1..Len(constructed) : ~constructed[i].ok
   /\ \E i \in 1..Len(constructed) : constructed[i].ok)
  => /\ ret # Nil
     /\ \A i \in 1..Len(constructed) :
          constructed[i].ok => constructed[i].target \in Range(posted)

\* C5 as stated: a dry-run invocation performs no network call, poster
\* construction included, and returns success for every accepted target list,
\* also when credentials are missing.
C5_DryRunOffline ==
  dryRun =>
    /\ \A i \in 1..Len(events) : events[i].op \notin NetworkOps
    /\ (pc = "done" /\ resolvedTargets # <<>>) => ret = Nil

\* C6: in simulate mode dispatch calls Post on no poster, writes one "would
\* post" line per poster in list order, then one image line if and only if
\* the request's image path is not empty, and returns nil.
C6_SimulateOutput ==
  (pc = "done" /\ dryRun /\ posters # <<>>) =>
    /\ posted = <<>>
    /\ results = <<>>
    /\ \A i \in 1..Len(events) : events[i].op = "createSession"
    /\ Len(out) = Len(posters) + (IF req.ImagePath # <<>> THEN 1 ELSE 0)
    /\ \A i \in 1..Len(posters) :
         out[i].kind = "would post" /\ out[i].p = posters[i] /\ out[i].message = req.Message
    /\ req.ImagePath # <<>> => out[Len(out)].kind = "image"
    /\ ret = Nil

C6_Witness ==
  /\ pc = "done"
  /\ dryRun
  /\ Len(posters) = 3
  /\ req.ImagePath # <<>>
  /\ Len(out) = 4

\* The settings each provider requires (spec, section 6).
RequiredVars(p) ==
  IF p = twitter THEN {envAPIKey, envAPISecret, envAccessToken, envAccessSecret}
  ELSE IF p = mastodon THEN {envServer, envMastodonToken}
  ELSE {envHandle, envAppPassword}

\* A value that is empty after trimming whitespace.
Blank(val) == \A i \in 1..Len(val) : IsSpace(val[i])

BlankRequired(p) == {v \in RequiredVars(p) : Blank(env[v])}

\* C7: a constructor fails with a MissingEnvError if and only if one of the
\* provider's required settings is blank; the error then lists exactly the
\* blank required settings and no client is returned; a provider whose
\* settings are complete is still constructed, whatever its siblings did.
C7_MissingEnvExact ==
  /\ \A i \in 1..Len(constructed) :
       LET c == constructed[i]
           blank == BlankRequired(c.target)
       IN /\ (c.err.kind = "MissingEnvError") <=> (blank # {})
          /\ blank # {} =>
               /\ c.err.kind = "MissingEnvError"
               /\ c.err.Provider = c.target
               /\ Range(c.err.Variables) = blank
               /\ Len(c.err.Variables) = Cardinality(blank)
               /\ ~c.ok
          /\ (blank = {} /\ c.outcome = "ok") => (c.ok /\ c.err = Nil)
  /\ (pc \in {"dispatch", "done"} /\ resolvedTargets # <<>>) =>
       Names(constructed) = resolvedTargets

C7_Witness ==
  /\ Len(constructed) = 3
  /\ constructed[1].err.kind = "MissingEnvError"
  /\ constructed[2].ok
  /\ constructed[3].err.kind = "MissingEnvError"
  /\ Len(constructed[3].err.Variables) = 2
  /\ env[envAccessToken] = <<" ">>

\* C8: buildPosters calls the constructor of every resolved target, also after
\* an earlier one failed; when no poster is usable dispatch is not called and
\* the returned error joins one entry per failed target, prefixed with the
\* target's name.
C8_AllConstructedAndJoined ==
  /\ (pc \in {"dispatch", "done"} /\ resolvedTargets # <<>>) =>
       Names(constructed) = resolvedTargets
  /\ (pc = "done" /\ constructed # <<>> /\ \A i \in 1..Len(constructed) : ~constructed[i].ok) =>
       /\ posted = <<>>
       /\ out = <<>>
       /\ ret.kind = "join"
       /\ Len(ret.errs) = Len(constructed)
       /\ \A i \in 1..Len(constructed) :
            /\ ret.errs[i].kind = "wrap"
            /\ ret.errs[i].prefix = constructed[i].target
            /\ ret.errs[i].err = constructed[i].err

C8_Witness ==
  /\ pc = "done"
  /\ Len(constructed) = 3
  /\ \A i \in 1..3 : ~constructed[i].ok

\* A step of provider p's media pipeline failed.
MediaFailed(p) ==
  \E k \in 1..Len(events) : events[k].p = p /\ events[k].op \in MediaOps /\ ~events[k].ok

CreateInvoked(p) == \E k \in 1..Len(events) : events[k].p = p /\ events[k].op = "create"

\* C9: for every provider, when the request has an image and a step of the
\* media pipeline fails, Post returns an error and the create-post operation
\* is not invoked in that call.
C9_NoPostAfterMediaFailure ==
  \A p \in supportedTargets :
    (req.ImagePath # <<>> /\ MediaFailed(p)) =>
      /\ ~CreateInvoked(p)
      /\ \E i \in 1..Len(results) : results[i].p = p /\ results[i].err # Nil

C9_Witness ==
  /\ pc = "done"
  /\ ~legacy
  /\ \A p \in supportedTargets : MediaFailed(p)
  /\ \E k \in 1..Len(events) : events[k] = Event(twitter, "processing", FALSE)

\* C10: for every provider, Post returns nil only if the create-post operation
\* was invoked in that call and succeeded, and a failure of that operation
\* makes Post return an error.
C10_NilOnlyOnRemoteSuccess ==
  \A i \in 1..Len(results) :
    LET p == results[i].p IN
      /\ results[i].err = Nil =>
           \E k \in 1..Len(events) : events[k] = Event(p, "create", TRUE)
      /\ (\E k \in 1..Len(events) : events[k] = Event(p, "create", FALSE)) =>
           results[i].err # Nil

C10_Witness ==
  /\ pc = "done"
  /\ Len(results) = 3
  /\ results[1].err = Nil
  /\ results[2].err # Nil
  /\ \E k \in 1..Len(events) : events[k] = Event(mastodon, "create", FALSE)
  /\ results[3].err = Nil

\* The steps provider p's Post calls have performed, in order.
StepsOf(p) == SelectSeq(events, LAMBDA e : e.p = p /\ e.op # "createSession")

OpsOf(p) == {StepsOf(p)[k].op : k \in 1..Len(StepsOf(p))}

ResultOf(p) == {results[i].err : i \in {j \in 1..Len(results) : results[j].p = p}}

\* C11: in the chunked upload, when finalize reports the processing state
\* "succeeded" or no state, no timer is started and nothing is waited for:
\* the step after finalize is the alt-text call or, the media id returned,
\* the creation of the tweet.
C11_SucceededWithoutWait ==
  LET steps == StepsOf(twitter)
      ops == OpsOf(twitter)
  IN
  observed.state \in {"", "succeeded"} =>
    /\ ppc # "tw_wait"
    /\ timer = 0
    /\ observed.waited = 0
    /\ "wait" \notin ops
    /\ \A k \in 1..Len(steps) - 1 :
         steps[k].op = "processing" =>
           /\ steps[k].ok
           /\ steps[k + 1].op \in {"metadata", "create"}
    /\ ppc = "tw_setAltText" => TrimSpace(req.ImageAlt) # <<>>
    /\ ppc \in {"tw_setAltText", "tw_create", "idle"}

C11_Witness ==
  /\ observed.state = ""
  /\ observed.secs = 0
  /\ \E k \in 1..Len(events) : events[k] = Event(twitter, "metadata", TRUE)
  /\ \E k \in 1..Len(events) : events[k] = Event(twitter, "create", TRUE)

\* C12: in the chunked upload, when finalize reports "pending" or
\* "in_progress" and the context is cancelled before the wait elapses,
\* uploadMedia returns the context's error at once, and neither the alt-text
\* call nor the creation of the tweet follows.
C12_CancelledWaitAborts ==
  LET steps == StepsOf(twitter)
      ops == OpsOf(twitter)
  IN
  (\E k \in 1..Len(events) : events[k] = Event(twitter, "wait", FALSE)) =>
    /\ observed.state \in {"pending", "in_progress"}
    /\ ResultOf(twitter) = {ContextCanceled}
    /\ steps[Len(steps)] = Event(twitter, "wait", FALSE)
    /\ "metadata" \notin ops
    /\ "create" \notin ops
    /\ ppc = "idle"

C12_Witness ==
  /\ pc = "done"
  /\ observed.state = "pending"
  /\ observed.secs = 1
  /\ observed.waited = 0
  /\ \E k \in 1..Len(events) : events[k] = Event(twitter, "wait", FALSE)

\* errors.As(err, &ValidationError{}): err or an error it wraps is a ValidationError.
RECURSIVE AsValidationError(_)
AsValidationError(err) ==
  IF err.kind = "ValidationError" THEN {err}
  ELSE IF err.kind = "wrap" THEN AsValidationError(err.err)
  ELSE {}

\* The requests of the chunked upload.
UploadCalls == {"initialize", "append", "finalize"}

C14_CatTxtRejectedByAll ==
  \A p \in supportedTargets :
    (/\ req.ImagePath = catTXT
     /\ observed.file[p] = "ok"
     /\ (p = twitter /\ ~legacy) => observed.detected = textPlain)
    => /\ \A err \in ResultOf(p) : \E v \in AsValidationError(err) : v.path = catTXT
       /\ OpsOf(p) \cap (UploadCalls \cup {"upload"}) = {}

\* C15: for every provider, Post with an image path that names a missing file
\* fails with a ValidationError ("not found", naming the path) before any
\* request is sent in that call; any other failure to open or read the file
\* gives an error that is not a ValidationError.
C15_MissingFileIsValidationError ==
  \A p \in supportedTargets :
    /\ observed.file[p] = "notfound" =>
         /\ ResultOf(p) # {}
         /\ \A err \in ResultOf(p) :
              \E v \in AsValidationError(err) :
                v.Provider = p /\ v.Reason = "image not found" /\ v.path = req.ImagePath
         /\ OpsOf(p) \cap NetworkOps = {}
    /\ (\/ observed.file[p] = "ioerr"
        \/ \E k \in 1..Len(events) : events[k] = Event(p, "copy", FALSE)) =>
         /\ ResultOf(p) # {}
         /\ \A err \in ResultOf(p) : err # Nil /\ AsValidationError(err) = {}

C15_Witness ==
  /\ pc = "done"
  /\ legacy
  /\ observed.file[bluesky] = "notfound"
  /\ observed.file[mastodon] = "ioerr"
  /\ observed.file[twitter] = "notfound"

\* The text the claim asks for: the message alone, or the message, an empty
\* line and the link.
ComposedText(r) ==
  IF r.Link = <<>> THEN Text(r.Message, <<>>, <<>>)
  ELSE Text(r.Message, <<"\n", "\n">>, r.Link)

\* C16 as stated: for every provider, the text sent to the create-post
\* operation is the message alone when the request's link is empty, and the
\* message followed by a blank line and the link when it is not.
C16_TextIsMessageAndLink ==
  \A p \in supportedTargets :
    observed.text[p] # NoText => observed.text[p] = ComposedText(req)

\* The providers named by the confirmation lines, in the order written.
ConfirmedProviders ==
  LET lines == SelectSeq(out, LAMBDA l : l.kind = "posted")
  IN [i \in 1..Len(lines) |-> lines[i].p]

\* The providers whose Post returned nil, in the order of the calls.
SucceededProviders ==
  LET oks == SelectSeq(results, LAMBDA r : r.err = Nil)
  IN [i \in 1..Len(oks) |-> oks[i].p]

\* C17: in live mode a confirmation line is written for a provider if and
\* only if its Post returned nil; the confirmation lines are in dispatch
\* order, and they are written also when other providers failed and the
\* returned error is not nil.
C17_ConfirmationIffSuccess ==
  ~dryRun =>
    /\ ConfirmedProviders = SucceededProviders
    /\ \A i, j \in 1..Len(ConfirmedProviders) :
         i < j => Rank(ConfirmedProviders[i]) < Rank(ConfirmedProviders[j])

C17_Witness ==
  /\ pc = "done"
  /\ ~dryRun
  /\ ret # Nil
  /\ Len(results) = 3
  /\ results[1].err = Nil
  /\ results[2].err # Nil
  /\ results[3].err = Nil
  /\ ConfirmedProviders = <<bluesky, twitter>>

\* The requests a Twitter post with an image sends, in the order the claim gives.
CallRank(op) ==
  CASE op = "initialize" -> 1
    [] op = "append" -> 2
    [] op = "finalize" -> 3
    [] op = "metadata" -> 4
    [] op = "create" -> 5
    [] OTHER -> 0

TwitterCalls == SelectSeq(StepsOf(twitter), LAMBDA e : CallRank(e.op) > 0)

NamedStates == {"none", "", "succeeded", "pending", "in_progress"}

\* C20: in the chunked upload, when finalize reports any other processing
\* state, the upload fails with an error that carries the reported state,
\* without waiting, and neither the alt-text call nor the creation of the
\* tweet follows.
C20_UnknownStateFails ==
  LET steps == StepsOf(twitter)
      ops == OpsOf(twitter)
  IN
  observed.state \notin NamedStates =>
    /\ ResultOf(twitter) # {}
    /\ \A err \in ResultOf(twitter) :
         err.kind = "errorString" /\ err.arg = <<observed.state>>
    /\ observed.waited = 0
    /\ timer = 0
    /\ ppc = "idle"
    /\ ops \cap {"wait", "metadata", "create"} = {}

C20_Witness ==
  /\ pc = "done"
  /\ observed.state = "failed"
  /\ StepsOf(twitter)[Len(StepsOf(twitter))] = Event(twitter, "processing", FALSE)
  /\ \E i \in 1..Len(results) : results[i].p = twitter /\ results[i].err.kind = "errorString"

\* The Twitter upload of this call succeeded: the upload request answered
\* with a media id, or, in the chunked upload, processing was reported done or
\* the single wait elapsed.
TwSessionSucceeded ==
  LET steps == StepsOf(twitter) IN
  IF legacy
  THEN \E k \in 1..Len(steps) : steps[k] = Event(twitter, "upload", TRUE)
  ELSE /\ \E k \in 1..Len(steps) : steps[k] = Event(twitter, "processing", TRUE)
       /\ \/ observed.state \in {"", "succeeded"}
          \/ \E k \in 1..Len(steps) : steps[k] = Event(twitter, "wait", TRUE)

\* C21 as stated: Twitter's alt-text metadata call is made if and only if the
\* upload succeeded and the request's alt text is non-blank after trimming; it
\* comes before the creation of the post; when it fails Post returns an error
\* and the post is not created; without an image path there is no upload and
\* no alt-text call, whatever the alt text holds.
C21_AltTextIffSucceededAndNonBlank ==
  LET steps == StepsOf(twitter)
      ops == OpsOf(twitter)
      due == TwSessionSucceeded /\ TrimSpace(req.ImageAlt) # <<>>
  IN
  /\ "metadata" \in ops => due
  /\ due => ("metadata" \in ops \/ ppc \in {"tw_setAltText", "tw1_setAltText"})
  /\ \A k \in 1..Len(steps) : \A j \in 1..Len(steps) :
       (steps[k].op = "metadata" /\ steps[j].op = "create") => k < j
  /\ (\E k \in 1..Len(steps) : steps[k] = Event(twitter, "metadata", FALSE)) =>
       /\ "create" \notin ops
       /\ ResultOf(twitter) # {}
       /\ Nil \notin ResultOf(twitter)
  /\ req.ImagePath = <<>> => ops \cap MediaOps = {}

\* errors.Is(err, context.Canceled): err or an error it wraps is the context's.
RECURSIVE IsContextError(_)
IsContextError(err) ==
  IF err = Nil THEN FALSE
  ELSE IF err.kind = "context.Canceled" THEN TRUE
  ELSE IF err.kind = "wrap" THEN IsContextError(err.err)
  ELSE FALSE

\* C22 as stated: whenever the context is cancelled while a Post call is
\* suspended in a remote request or in the processing wait, the operation in
\* flight fails, Post returns at once with the context's error, and no further
\* remote operation follows; in particular the post is not created.
C22_CancellationAborts ==
  [][(~ctxDone /\ ctxDone') =>
       /\ ppc' = "idle"
       /\ Len(events') = Len(events) + 1
       /\ ~events'[Len(events')].ok
       /\ Len(results') = Len(results) + 1
       /\ IsContextError(results'[Len(results')].err)
       /\ ~\E k \in 1..Len(events') :
            events'[k] = Event(posters[idx], "create", TRUE)]_vars

\* The path ends, whatever the case of its letters, with the suffix.
EndsWithFold(path, suffix) ==
  /\ Len(path) >= Len(suffix)
  /\ ToLower(SubSeq(path, Len(path) - Len(suffix) + 1, Len(path))) = suffix

\* The table's entry for the extension of the path, "none" without one.
KindByExtension(path) ==
  IF EndsWithFold(path, <<".","j","p","g">>) \/ EndsWithFold(path, <<".","j","p","e","g">>)
  THEN "jpeg"
  ELSE IF EndsWithFold(path, <<".","p","n","g">>) THEN "png"
  ELSE IF EndsWithFold(path, <<".","g","i","f">>) THEN "gif"
  ELSE IF EndsWithFold(path, <<".","w","e","b","p">>) THEN "webp"
  ELSE "none"

\* The kind of the sniffed content type, "none" when it is not an image kind
\* of the table.
KindByContent(detected) ==
  IF detected = imageJPEG THEN "jpeg"
  ELSE IF detected = imagePNG THEN "png"
  ELSE IF detected = imageGIF THEN "gif"
  ELSE IF detected = imageWEBP THEN "webp"
  ELSE "none"

MediaTypeOf(kind) ==
  IF kind = "jpeg" THEN "image/jpeg"
  ELSE IF kind = "png" THEN "image/png"
  ELSE IF kind = "gif" THEN "image/gif"
  ELSE "image/webp"

\* C23: the classification of the chunked upload gives the extension
\* precedence: a path ending in jpg, jpeg, png, gif or webp is classified by
\* the table alone (gif as animated GIF, the others as image) whatever the
\* content is; the sniffed content type decides only when the extension is
\* absent or not in the table; when neither is recognized the upload fails
\* with a ValidationError and sends no request.
C23_ExtensionPrecedence ==
  (~legacy /\ observed.file[twitter] = "ok") =>
    LET byExt == KindByExtension(req.ImagePath)
        kind == IF byExt # "none" THEN byExt ELSE KindByContent(observed.detected)
        steps == StepsOf(twitter)
    IN IF kind = "none"
       THEN /\ steps = <<Event(twitter, "readFile", TRUE), Event(twitter, "classify", FALSE)>>
            /\ ResultOf(twitter) # {}
            /\ \A err \in ResultOf(twitter) :
                 \E v \in AsValidationError(err) : v.Provider = twitter
       ELSE /\ observed.mediaType = MediaTypeOf(kind)
            /\ observed.category = (IF kind = "gif" THEN "tweet_gif" ELSE "tweet_image")
            /\ steps[2] = Event(twitter, "classify", TRUE)

C23_Witness ==
  /\ pc = "done"
  /\ ~legacy
  /\ req.ImagePath = <<"c",".","g","i","f">>
  /\ observed.detected = imagePNG
  /\ observed.category = "tweet_gif"
  /\ \E k \in 1..Len(events) : events[k] = Event(twitter, "create", TRUE)

\* The content decides where the path's only dot is in a directory name.
C23_WitnessSniffed ==
  /\ pc = "done"
  /\ ~legacy
  /\ req.ImagePath = <<"a",".","p","n","g","/","c">>
  /\ observed.detected = imageGIF
  /\ observed.category = "tweet_gif"

\* The ProcessingState of the chunked upload session, read off the history:
\* None until finalize has answered; Pending or InProgress while the single
\* wait runs; Succeeded when finalize reported so (or no state) or the wait
\* elapsed; Failed when a protocol call failed, finalize reported another
\* state, or the context was cancelled.
ProcessingState ==
  LET steps == StepsOf(twitter) IN
  IF \E k \in 1..Len(steps) :
       steps[k].op \in UploadCalls \cup {"processing", "wait"} /\ ~steps[k].ok
  THEN "Failed"
  ELSE IF observed.state = "none" THEN "None"
  ELSE IF observed.state \in {"", "succeeded"} THEN "Succeeded"
  ELSE IF \E k \in 1..Len(steps) : steps[k] = Event(twitter, "wait", TRUE) THEN "Succeeded"
  ELSE IF observed.state = "pending" THEN "Pending"
  ELSE "InProgress"

StateRank(s) ==
  IF s = "None" THEN 0 ELSE IF s \in {"Pending", "InProgress"} THEN 1 ELSE 2

\* C24: the processing state of one chunked upload session is monotonic: it is
\* None while initialize, append and finalize are under way, every step
\* leaves it where it is or moves it forward (None, then Pending or
\* InProgress, then Succeeded or Failed), and once it is Succeeded or Failed
\* no later step changes it or sends initialize, append or finalize again.
C24_ProcessingStateMonotonic ==
  [][~legacy =>
       LET before == ProcessingState
           after == ProcessingState'
       IN /\ ppc' \in {"tw_initialize", "tw_append", "tw_finalize"} => after = "None"
          /\ StateRank(after) >= StateRank(before)
          /\ StateRank(after) = StateRank(before) => after = before
          /\ StateRank(before) = 2 =>
               \A k \in (Len(events) + 1)..Len(events') :
                 ~(events'[k].p = twitter /\ events'[k].op \in UploadCalls)]_vars

C24_Witness ==
  /\ pc = "done"
  /\ ~legacy
  /\ observed.state = "pending"
  /\ observed.waited = observed.secs
  /\ ProcessingState = "Succeeded"
  /\ \E k \in 1..Len(events) : events[k] = Event(twitter, "metadata", TRUE)
  /\ \E k \in 1..Len(events) : events[k] = Event(twitter, "create", FALSE)

\* The steps during which an upload function holds the image file open.
UploadSteps == {"tw1_upload", "ma_upload", "bs_upload"}

\* C25: a file opened to read the image is held only while the upload
\* function that opened it runs, and is closed when that function returns,
\* on every exit path (success, a failed or undecodable response, a network
\* failure, cancellation): no handle is open between Post calls or after
\* dispatch has returned.
C25_FileHandlesClosed ==
  /\ fileOpen => (pc = "dispatch" /\ ppc \in UploadSteps)
  /\ ppc \in UploadSteps => fileOpen
  /\ (ppc = "idle" \/ pc = "done") => ~fileOpen

C25_Witness ==
  /\ pc = "done"
  /\ legacy
  /\ ~fileOpen
  /\ \A p \in supportedTargets : observed.file[p] = "ok"
  /\ \E k \in 1..Len(events) : events[k] = Event(bluesky, "create", TRUE)
  /\ ResultOf(mastodon) = {Wrap("upload media", RemoteError("upload"))}
  /\ ResultOf(twitter) = {Wrap("upload media", ContextCanceled)}

\* The Post calls that returned an error, in the order they were made.
FailedResults == SelectSeq(results, LAMBDA r : r.err # Nil)

\* C26: when dispatch returns an error in live mode, the error joins exactly
\* one entry per poster whose Post failed, in dispatch order, each the
\* provider's own error wrapped with the poster's name; posters whose Post
\* succeeded contribute nothing.
C26_AggregateOfFailures ==
  (LiveDispatchReturned /\ ret # Nil) =>
    LET failed == FailedResults IN
    /\ ret.kind = "join"
    /\ Len(failed) >= 1
    /\ Len(ret.errs) = Len(failed)
    /\ \A i \in 1..Len(failed) :
         ret.errs[i] = [kind |-> "wrap", prefix |-> failed[i].p, err |-> failed[i].err]

C26_Witness ==
  /\ LiveDispatchReturned
  /\ Len(results) = 3
  /\ results[1].err # Nil
  /\ results[2].err = Nil
  /\ results[3].err # Nil
  /\ results[1].err # results[3].err
  /\ Len(ret.errs) = 2

\* The lines that tell the outcome of a Post call: confirmations and errors.
OutcomeLines == SelectSeq(out, LAMBDA l : l.kind \in {"posted", "error"})

\* C27 as stated: in live mode every poster produces exactly one outcome line:
\* a confirmation line when its Post succeeded, otherwise an error line that
\* names the provider; there are as many outcome lines as posters.
C27_OneOutcomeLinePerPoster ==
  LiveDispatchReturned =>
    LET lines == OutcomeLines IN
    /\ Len(lines) = Len(posters)
    /\ \A i \in 1..Len(results) :
         LET p == results[i].p
             confirmations == {k \in 1..Len(lines) : lines[k] = PostedLine(p)}
             errors == {k \in 1..Len(lines) :
                          /\ lines[k].kind = "error"
                          /\ lines[k].err.kind = "wrap"
                          /\ lines[k].err.prefix = p}
         IN IF results[i].err = Nil
            THEN Cardinality(confirmations) = 1 /\ errors = {}
            ELSE confirmations = {} /\ Cardinality(errors) = 1

\* The text supplied as the message: the flag, else the arguments joined by
\* spaces, else what is piped into stdin.
SuppliedMessage ==
  IF messageFlag # <<>> THEN messageFlag
  ELSE IF JoinArgs(args) # <<>> THEN JoinArgs(args)
  ELSE IF stdin.kind = "pipe" THEN stdin.data
  ELSE <<>>

\* A blank message was supplied, in one way only, and stdin could be read
\* where it was needed.
BlankSupplied ==
  /\ ~(messageFlag # <<>> /\ Len(args) > 0)
  /\ TrimSpace(SuppliedMessage) = <<>>
  /\ (messageFlag = <<>> /\ JoinArgs(args) = <<>>) => stdin.kind \notin {"statErr", "readErr"}

\* C28 as stated: every Request that reaches poster construction or dispatch
\* has a message that is non-empty after trimming, however the message was
\* supplied (flag, arguments, stdin); a blank message is rejected with
\* "message is required" before any poster is constructed.
C28_MessageNonEmpty ==
  entry = "runRoot" =>
    /\ (pc \in {"buildPosters", "dispatch"} \/ constructed # <<>> \/ posted # <<>>) =>
         TrimSpace(req.Message) # <<>>
    /\ (pc # "resolveMessage" /\ BlankSupplied) =>
         /\ pc = "done"
         /\ ret = ErrorString("message is required", <<>>)
         /\ constructed = <<>>

\* runRoot has built the Request.
RequestBuilt ==
  entry = "runRoot" /\ (pc \in {"buildPosters", "dispatch"} \/ constructed # <<>>)

\* The Request built for an image carries a non-empty alt text, the default
\* one when the flag is blank, and a Twitter post whose upload succeeded
\* makes the alt-text call.
AltTextForImage ==
  LET ops == OpsOf(twitter) IN
  imagePath # <<>> =>
    /\ req.ImagePath = imagePath
    /\ req.ImageAlt # <<>>
    /\ req.ImageAlt = (IF TrimSpace(imageAlt) = <<>> THEN defaultAltText ELSE TrimSpace(imageAlt))
    /\ TwSessionSucceeded =>
         ("metadata" \in ops \/ ppc \in {"tw_setAltText", "tw1_setAltText"})

\* C29 as stated: a Request built by runRoot with an image path reaches the
\* providers with a non-empty alt text (a blank one is replaced by the default
\* text), so that a Twitter post with an image makes the alt-text call;
\* without an image path the alt text is left as given and no default is
\* applied.
C29_AltDefaultedOrLeftAsGiven ==
  RequestBuilt =>
    /\ AltTextForImage
    /\ imagePath = <<>> => req.ImageAlt = imageAlt

\* C29, amended: as above, but without an image path the alt text is trimmed
\* of surrounding white space, and is otherwise as given, without default.
C29_AltDefaultedOrTrimmed ==
  RequestBuilt =>
    /\ AltTextForImage
    /\ imagePath = <<>> =>
         /\ req.ImageAlt = TrimSpace(imageAlt)
         /\ req.ImageAlt # defaultAltText
         /\ OpsOf(twitter) \cap MediaOps = {}

C29_Witness ==
  /\ entry = "runRoot"
  /\ pc = "done"
  /\ legacy
  /\ imagePath = catPNG
  /\ imageAlt = <<" ">>
  /\ req.ImageAlt = defaultAltText
  /\ \E k \in 1..Len(events) : events[k] = Event(twitter, "metadata", TRUE)
  /\ \E k \in 1..Len(events) : events[k] = Event(twitter, "create", TRUE)

\* Without an image a blank alt text stays empty.
C29_WitnessNoImage ==
  /\ entry = "runRoot"
  /\ pc = "done"
  /\ imagePath = <<>>
  /\ imageAlt = <<" ">>
  /\ req.ImageAlt = <<>>
  /\ \E k \in 1..Len(events) : events[k] = Event(twitter, "create", TRUE)

\* The lists of target values that hold the same set of values as the flag.
SameValues ==
  {v \in SeqsUpTo(RawTargets, MaxTargets) : Range(v) = Range(targetsFlag)}

\* C30 as stated: the outcome of target resolution depends only on the set of
\* values given, not on their order or multiplicity: every list of the same
\* values, lists mixing "all" with unsupported names included, resolves to the
\* result runRoot obtained; a successful result is a non-empty, duplicate-free,
\* ascending list of supported targets.
C30_ResolutionOrderIndependent ==
  /\ (entry = "runRoot" /\ pc = "buildPosters") =>
       /\ \A v \in SameValues :
            normalizeTargets(v) = [targets |-> resolvedTargets, err |-> Nil]
       /\ resolvedTargets # <<>>
       /\ Ascending(resolvedTargets)
       /\ Range(resolvedTargets) \subseteq supportedTargets
  /\ (/\ entry = "runRoot"
      /\ pc = "done"
      /\ ret.kind = "errorString"
      /\ ret.msg \in {"unsupported target", "no targets selected"}) =>
       \A v \in SameValues : normalizeTargets(v) = [targets |-> <<>>, err |-> ret]

----------------------------------------------------------------------------
\* Two dispatch runs over the same Request (cmd/root.go:240-267): a run on one
\* poster alone, then a run on a list that holds that poster among others

\* The lists of posters buildPosters hands to dispatch: ascending, not empty.
PairLists ==
  {l \in SeqsUpTo(supportedTargets, 3) : l # <<>> /\ Ascending(l)}

\* The Requests of the paired runs.
PairRequests ==
  {[Message |-> hello, ImagePath |-> i, ImageAlt |-> a, Link |-> <<>>] :
     i \in {<<>>, catPNG}, a \in {<<>>, <<"a">>}}

\* buildPosters constructed every poster of the list.
Constructed(l) ==
  [i \in 1..Len(l) |-> [target |-> l[i], ok |-> TRUE, err |-> Nil, outcome |-> "ok"]]

\* dispatch is called in live mode on one poster alone.
InitPair ==
  /\ entry = "pair"
  /\ messageFlag = hello
  /\ args = <<>>
  /\ stdin = Terminal
  /\ dryRun = FALSE
  /\ env = CompleteEnv
  /\ message = hello
  /\ \E p \in supportedTargets, r \in PairRequests, l \in BOOLEAN :
       /\ legacy = l
       /\ targetsFlag = <<p>>
       /\ resolvedTargets = <<p>>
       /\ posters = <<p>>
       /\ constructed = Constructed(<<p>>)
       /\ imagePath = r.ImagePath
       /\ imageAlt = r.ImageAlt
       /\ req = r
  /\ pc = "dispatch"
  /\ idx = 1
  /\ errs = <<>>
  /\ out = <<>>
  /\ ret = Nil
  /\ ppc = "idle"
  /\ upload = NoUpload
  /\ timer = 0
  /\ ctxDone = FALSE
  /\ fileOpen = FALSE
  /\ posted = <<>>
  /\ results = <<>>
  /\ events = <<>>
  /\ observed = NoObserved
  /\ answers = <<>>
  /\ twin = NoTwin

\* What was answered to the steps of p's Post in this run.
AnswersOf(p) == SelectSeq(answers, LAMBDA a : a.p = p)

IsPrefix(s, t) == Len(s) <= Len(t) /\ SubSeq(t, 1, Len(s)) = s

\* The first run has returned: it is kept, and dispatch is called again with
\* the same Request and a fresh context on a list that holds the poster
\* among others.
Rerun ==
  /\ entry = "pair"
  /\ pc = "done"
  /\ twin = NoTwin
  /\ LET p == posters[1] IN
       /\ twin' = [p |-> p, answers |-> answers, steps |-> StepsOf(p),
                   text |-> observed.text[p], result |-> results[1].err]
       /\ \E l \in PairLists :
            /\ p \in Range(l)
            /\ l # posters
            /\ posters' = l
            /\ resolvedTargets' = l
            /\ constructed' = Constructed(l)
  /\ pc' = "dispatch"
  /\ idx' = 1
  /\ errs' = <<>>
  /\ out' = <<>>
  /\ ret' = Nil
  /\ ppc' = "idle"
  /\ upload' = NoUpload
  /\ timer' = 0
  /\ ctxDone' = FALSE
  /\ fileOpen' = FALSE
  /\ posted' = <<>>
  /\ results' = <<>>
  /\ events' = <<>>
  /\ observed' = NoObserved
  /\ answers' = <<>>
  /\ UNCHANGED <<inputs, message, req>>

\* In the second run the poster's file system, remote service, timer and
\* context answer as they did in the first.
SameAnswers == twin # NoTwin => IsPrefix(AnswersOf(twin.p), twin.answers)

NextPair ==
  \/ Rerun
  \/ PostBegin /\ SameAnswers'
  \/ DispatchReturn /\ SameAnswers'
  \/ TwReadFile /\ SameAnswers'
  \/ TwInitialize /\ SameAnswers'
  \/ TwAppend /\ SameAnswers'
  \/ TwFinalize /\ SameAnswers'
  \/ Tick /\ SameAnswers'
  \/ TwWaitElapsed /\ SameAnswers'
  \/ TwWaitCancelled /\ SameAnswers'
  \/ TwSetAltText /\ SameAnswers'
  \/ TwCreate /\ SameAnswers'
  \/ Tw1Open /\ SameAnswers'
  \/ Tw1Upload /\ SameAnswers'
  \/ Tw1SetAltText /\ SameAnswers'
  \/ Tw1Update /\ SameAnswers'
  \/ MaOpen /\ SameAnswers'
  \/ MaUpload /\ SameAnswers'
  \/ MaPostStatus /\ SameAnswers'
  \/ BsOpen /\ SameAnswers'
  \/ BsUpload /\ SameAnswers'
  \/ BsCreateRecord /\ SameAnswers'

PairSpec == InitPair /\ [][NextPair]_vars

\* C31: providers do not interfere. In two live dispatch runs over the same
\* Request in which a provider's file system, remote service, timer and
\* context answer alike, the provider's Post performs the same steps, sends
\* the same text and returns the same result, whether it is posted to alone
\* or among other providers that succeed or fail; it is posted to in either
\* case; and every Post starts from fresh locals, so that nothing one Post
\* wrote is read by another.
C31_NonInterference ==
  /\ twin # NoTwin =>
       LET p == twin.p
           mine == AnswersOf(p)
           steps == StepsOf(p)
           returned == ResultOf(p) # {}
       IN /\ IsPrefix(steps, twin.steps)
          /\ returned <=> mine = twin.answers
          /\ returned =>
               /\ steps = twin.steps
               /\ observed.text[p] = twin.text
               /\ ResultOf(p) = {twin.result}
          /\ pc = "done" => returned
  /\ (pc = "dispatch" /\ ppc = "idle") =>
       /\ upload = NoUpload
       /\ timer = 0
       /\ ~fileOpen

C31_Witness ==
  /\ twin # NoTwin
  /\ twin.p = mastodon
  /\ twin.result = Nil
  /\ req.ImagePath = catPNG
  /\ pc = "done"
  /\ posters = <<bluesky, mastodon, twitter>>
  /\ results[1].err # Nil
  /\ results[2].err = Nil
  /\ results[3].err # Nil

====
